---------------------------- MODULE Spec2Model ----------------------------
(***************************************************************************)
(* Verification model of the client-side data access layer of RustBlogCMS. *)
(*                                                                         *)
(* ContentProvider (src/src/AppRoutes.jsx, lines 545-815) is modelled as a *)
(* state machine.  Every asynchronous function is cut at its awaits: the   *)
(* code between two awaits runs to completion (single-threaded event       *)
(* loop), so it is one action.  The specifications share the variables:    *)
(*   SpecContent    the content store (loadContent, updateSection)         *)
(*   SpecPages      the published-page cache (fetchPublishedPage,          *)
(*                  invalidatePageCache, loadPublishedPages)               *)
(*   SpecTransport  ApiClient (src/src/api/client.js): request, setToken,  *)
(*                  login, logout                                          *)
(*   SpecHeaders    the headers ApiClient.request builds                   *)
(*   SpecRetry      the retry loader (TutorialProvider.loadTutorials)      *)
(* Each specification leaves the other components' variables untouched.    *)
(***************************************************************************)
EXTENDS Integers, Sequences, FiniteSets, Bags, TLC

(***************************************************************************)
(* Bounds of the model.                                                    *)
(***************************************************************************)
\* number of updateSection and refreshContent calls issued in one behaviour,
\* after the loadContent call of the mount effect
MaxContentCalls == 2
\* number of pages.fetch, pages.invalidate and pages.refresh calls issued
\* in one behaviour
MaxCalls == 3
\* number of request() calls issued in one behaviour
MaxRequests == 2
\* length of the strings given to setToken
MaxTokenLen == 2
\* number of loadTutorials calls issued in one behaviour (the first one is
\* the load started by the mount effect)
MaxTutorialLoads == 2

(***************************************************************************)
(* Values.                                                                 *)
(***************************************************************************)
\* an Error object without a status property (e.g. the TypeError fetch
\* rejects with on a network failure)
NoStatus == -1

\* section keys: two of Object.keys(DEFAULT_CONTENT)
CONTENT_SECTIONS == {"header", "footer"}

\* fields of a section value; "-" marks a field the value does not have
Fields == {"title", "icon"}

\* JavaScript null / undefined where a section value is expected
Nullish == [title |-> "null", icon |-> "null"]

\* the compiled-in defaults: every field present
DEFAULT_CONTENT == [s \in CONTENT_SECTIONS |-> [title |-> "default", icon |-> "default"]]

\* section values sent by callers and returned by the server; the first
\* lacks the icon field, so a whole-section override differs from a
\* field-by-field merge with the default
Values == { [title |-> "a", icon |-> "-"], [title |-> "b", icon |-> "b"] }

\* statuses of the errors api.* can reject with in the content store
ContentErrors == {NoStatus, 503}

\* normalized slugs of pages
Slugs == {"about", "blog"}

\* page bundles returned by GET /public/pages/:slug
Bundles == {"b1", "b2"}

\* pageCache[slug] of a slug that is not a key of the object
Absent == "absent"

\* statuses of the errors api.getPublishedPage rejects with: a network
\* failure and a server error
PageErrors == {NoStatus, 500}

\* a ?? b
Coalesce(a, b) == IF a = Nullish THEN b ELSE a

VARIABLES
  \* ---- content store (React state of ContentProvider) ----
  content,          \* useState(DEFAULT_CONTENT)
  loading,          \* useState(true)
  error,            \* useState(null): <<>> or <<status>>
  savingSections,   \* useState({}): the set of keys of the object
  loadCalls,        \* loadContent calls: id -> "idle" | "pending" | "ok" | "failed"
  saveCalls,        \* updateSection calls: id -> record
  lastSave,         \* the updateSection call that settled last and its outcome
  \* ---- history of the content store (not program state) ----
  latestOverride,   \* per section: the override carried by the latest applied
                    \* load or save response, Nullish when it carried none
  everOverride      \* per section: the last override any response carried

VARIABLES
  \* ---- published-page cache (React state and refs of ContentProvider) ----
  pageCache,              \* useState({}): slug -> bundle or Absent
  pageCacheRef,           \* useRef({}): slug -> bundle or Absent
  pageCacheQueue,         \* updates of pageCache queued by setPageCache until the next render
  dirty,                  \* the component has state updates that are not rendered yet
  publishedPageSlugs,     \* useState([]): the set of normalized slugs in the list
  publishedPageSlugsRef,  \* useRef([]), copied from the state by the effect at lines 608-612
  slugLoads,              \* loadPublishedPages calls in flight that no fetch is waiting for
  fetchCalls,             \* fetchPublishedPage calls in flight: a bag of records
  calls,                  \* number of calls of the pages interface issued so far
  settled,                \* the fetchPublishedPage call whose promise has just settled,
                          \* until the continuation of its caller has run
  \* ---- history of the page cache (not program state) ----
  history                 \* per slug: "fetched" since a non-forced fetch resolved from
                          \* the endpoint, "invalidated" since an invalidation no
                          \* fetch has written after, else "none"

pageVars == <<pageCache, pageCacheRef, pageCacheQueue, dirty, publishedPageSlugs,
              publishedPageSlugsRef, slugLoads, fetchCalls, calls, settled, history>>

contentVars == <<content, loading, error, savingSections, loadCalls, saveCalls, lastSave,
                 latestOverride, everOverride>>

VARIABLES
  \* ---- transport (ApiClient, src/src/api/client.js) ----
  token,            \* this.token: a JavaScript value
  requests,         \* request() calls in flight: a bag of records
  nreq,             \* number of request() calls issued so far
  done,             \* the request() call that settled last and its outcome
  sent,             \* the headers of the request built last
  leakedTimers,     \* timers of settled calls that are still scheduled
  leakedListeners   \* abort listeners of settled calls still attached to a caller's signal

transportVars == <<token, requests, nreq, done, sent, leakedTimers, leakedListeners>>

VARIABLES
  \* ---- retry loader (TutorialProvider.loadTutorials, src/src/AppRoutes.jsx) ----
  tutorials,        \* useState([]): the list of tutorials
  tutorialsLoading, \* useState(true)
  tutorialsError,   \* useState(null): <<>> or <<status>>
  stage,            \* where the running loadTutorials call is: "fetching", "waiting", "done"
  attempt,          \* the parameter of the running execute(attempt)
  signal,           \* the signal given to loadTutorials: "none", "live", "aborted"
  loads,            \* number of loadTutorials calls issued so far
  delayTimer,       \* the timer of the delay (line 299) is scheduled
  delayListener,    \* abortHandler is attached to the signal (line 304)
  \* ---- history of the running load (not program state) ----
  failures          \* error.status of its failed attempts, in order

retryVars == <<tutorials, tutorialsLoading, tutorialsError, stage, attempt, signal, loads,
               delayTimer, delayListener, failures>>

VARIABLES
  \* ---- dynamic navigation (React state of ContentProvider) ----
  dynamicNavItems,  \* useState([]): the items of GET /navigation, in order
  navLoading,       \* useState(true)
  navError,         \* useState(null): <<>> or <<status>>
  navPending        \* the loadNavigation call of the mount effect is in flight

navVars == <<dynamicNavItems, navLoading, navError, navPending>>

VARIABLES
  \* ---- history of the pages interface (not program state) ----
  lastSlug          \* the slug arguments of the last two fetchPublishedPage and
                    \* invalidatePageCache calls as the callers wrote them: <<previous, last>>

argVars == <<lastSlug>>

VARIABLES
  \* ---- tutorial edits (TutorialProvider.addTutorial and updateTutorial) ----
  editCalls,        \* calls waiting for api.createTutorial or api.updateTutorial: a bag
  edits,            \* number of addTutorial and updateTutorial calls so far
  lastEdit          \* the call that threw or settled last and how

editVars == <<editCalls, edits, lastEdit>>

vars == <<contentVars, pageVars, transportVars, retryVars, navVars, argVars, editVars>>

\* the variables each component leaves alone
notContentVars == <<pageVars, transportVars, retryVars, navVars, argVars, editVars>>
notPageVars == <<contentVars, transportVars, retryVars, navVars, argVars, editVars>>
notTransportVars == <<contentVars, pageVars, retryVars, navVars, argVars, editVars>>
notRetryVars == <<contentVars, pageVars, transportVars, navVars, argVars, editVars>>
notNavVars == <<contentVars, pageVars, transportVars, retryVars, argVars, editVars>>
notPageOrArgVars == <<contentVars, transportVars, retryVars, navVars, editVars>>

(***************************************************************************)
(* Content store.                                                          *)
(***************************************************************************)
\* the loadContent call of the mount effect is call 1
LoadIds == 1..(MaxContentCalls + 1)
SaveIds == 1..MaxContentCalls

IdleSave == [st |-> "idle", section |-> "-", newContent |-> Nullish]

\* lastSave before any call has settled
NoSave == [id |-> 0, section |-> "-", newContent |-> Nullish, echoed |-> Nullish, thrown |-> <<>>]

\* the responses of GET /content: data.items as a map section -> content
ContentResponses == UNION { [D -> Values] : D \in SUBSET CONTENT_SECTIONS }

\* getSection: content[section] ?? DEFAULT_CONTENT[section]
getSection(section) == Coalesce(content[section], DEFAULT_CONTENT[section])

\* getDefaultSection
getDefaultSection(section) == DEFAULT_CONTENT[section]

\* MergeContent with the override merged field by field over the default
MergeContent_fieldwise(items) ==
  [s \in CONTENT_SECTIONS |->
     IF s \in DOMAIN items
     THEN [f \in Fields |-> IF items[s][f] = "-" THEN DEFAULT_CONTENT[s][f] ELSE items[s][f]]
     ELSE DEFAULT_CONTENT[s]]

\* loadContent, lines 564-569: merged = { ...DEFAULT_CONTENT } and then
\* merged[item.section] = item.content for every item
MergeContent(items) ==
  [s \in CONTENT_SECTIONS |-> IF s \in DOMAIN items THEN items[s] ELSE DEFAULT_CONTENT[s]]

\* loadContent, lines 573-574: fallback.status = err?.status ?? 500, where
\* a status of 0 is falsy and nullish only when missing
FallbackStatus(status) == IF status = NoStatus THEN 500 ELSE status

\* UpdatedContent keeping the caller's optimistic value
UpdatedContent_optimistic(responseContent, newContent) == newContent

\* updateSection, line 704: response?.content ?? newContent
UpdatedContent(responseContent, newContent) == Coalesce(responseContent, newContent)

\* FinallyClearSaving as a statement after the await instead of a finally
FinallyClearSaving_onSuccessOnly(saving, section, succeeded) ==
  IF succeeded THEN saving \ {section} ELSE saving

\* updateSection, lines 710-716: the finally block deletes the key
FinallyClearSaving(saving, section, succeeded) == saving \ {section}

\* number of updateSection and refreshContent calls issued so far
ContentCalls ==
  Cardinality({i \in SaveIds : saveCalls[i].st # "idle"})
    + Cardinality({i \in LoadIds \ {1} : loadCalls[i] # "idle"})

LowestIdleLoad == CHOOSE i \in LoadIds : loadCalls[i] = "idle" /\ \A j \in LoadIds : loadCalls[j] = "idle" => i <= j
LowestIdleSave == CHOOSE i \in SaveIds : saveCalls[i].st = "idle" /\ \A j \in SaveIds : saveCalls[j].st = "idle" => i <= j

\* state after the first render and its mount effect (lines 690-692):
\* loadContent has run up to its await
InitContent ==
  /\ content = DEFAULT_CONTENT
  /\ loading = TRUE
  /\ error = <<>>
  /\ savingSections = {}
  /\ loadCalls = [i \in LoadIds |-> IF i = 1 THEN "pending" ELSE "idle"]
  /\ saveCalls = [i \in SaveIds |-> IdleSave]
  /\ lastSave = NoSave
  /\ latestOverride = [s \in CONTENT_SECTIONS |-> Nullish]
  /\ everOverride = [s \in CONTENT_SECTIONS |-> Nullish]

\* refreshContent = loadContent, lines 559-563, up to the await
RefreshContent ==
  /\ ContentCalls < MaxContentCalls
  /\ loadCalls' = [loadCalls EXCEPT ![LowestIdleLoad] = "pending"]
  /\ loading' = TRUE
  /\ error' = <<>>
  /\ UNCHANGED <<content, savingSections, saveCalls, lastSave, latestOverride, everOverride>>
  /\ UNCHANGED notContentVars

\* loadContent, lines 564-570 and 577: the request resolved
LoadContentOk(i, items) ==
  /\ loadCalls[i] = "pending"
  /\ loadCalls' = [loadCalls EXCEPT ![i] = "ok"]
  /\ content' = MergeContent(items)
  /\ loading' = FALSE
  /\ latestOverride' = [s \in CONTENT_SECTIONS |-> IF s \in DOMAIN items THEN items[s] ELSE Nullish]
  /\ everOverride' = [s \in CONTENT_SECTIONS |-> IF s \in DOMAIN items THEN items[s] ELSE everOverride[s]]
  /\ UNCHANGED <<error, savingSections, saveCalls, lastSave>>
  /\ UNCHANGED notContentVars

\* LoadContentFail without the finally: the loading flag is left set
LoadContentFail_noFinally(i, status) ==
  /\ loadCalls[i] = "pending"
  /\ loadCalls' = [loadCalls EXCEPT ![i] = "failed"]
  /\ error' = <<FallbackStatus(status)>>
  /\ UNCHANGED <<content, loading, savingSections, saveCalls, lastSave, latestOverride, everOverride>>
  /\ UNCHANGED notContentVars

\* loadContent, lines 571-578: the request rejected
LoadContentFail(i, status) ==
  /\ loadCalls[i] = "pending"
  /\ loadCalls' = [loadCalls EXCEPT ![i] = "failed"]
  /\ error' = <<FallbackStatus(status)>>
  /\ loading' = FALSE
  /\ UNCHANGED <<content, savingSections, saveCalls, lastSave, latestOverride, everOverride>>
  /\ UNCHANGED notContentVars

\* UpdateSection that writes the new value into the section when the call
\* is issued
UpdateSection_optimistic(section, newContent) ==
  /\ ContentCalls < MaxContentCalls
  /\ saveCalls' = [saveCalls EXCEPT ![LowestIdleSave] =
                     [IdleSave EXCEPT !.st = "pending", !.section = section,
                                      !.newContent = newContent]]
  /\ savingSections' = savingSections \cup {section}
  /\ content' = [content EXCEPT ![section] = newContent]
  /\ UNCHANGED <<loading, error, loadCalls, lastSave, latestOverride, everOverride>>
  /\ UNCHANGED notContentVars

\* updateSection, lines 697-703, up to the await (section is a valid key)
UpdateSection(section, newContent) ==
  /\ ContentCalls < MaxContentCalls
  /\ saveCalls' = [saveCalls EXCEPT ![LowestIdleSave] =
                     [IdleSave EXCEPT !.st = "pending", !.section = section,
                                      !.newContent = newContent]]
  /\ savingSections' = savingSections \cup {section}
  /\ UNCHANGED <<content, loading, error, loadCalls, lastSave, latestOverride, everOverride>>
  /\ UNCHANGED notContentVars

\* UpdateSectionOk that drops the response of a call when a call issued
\* later for the same section has succeeded already
UpdateSectionOk_issueOrder(i, responseContent) ==
  /\ saveCalls[i].st = "pending"
  /\ saveCalls' = [saveCalls EXCEPT ![i].st = "ok", ![i].newContent = Nullish]
  /\ lastSave' = [id |-> i, section |-> saveCalls[i].section, newContent |-> saveCalls[i].newContent,
                  echoed |-> responseContent, thrown |-> <<>>]
  /\ content' = IF \E j \in SaveIds : j > i /\ saveCalls[j].st = "ok"
                                         /\ saveCalls[j].section = saveCalls[i].section
                THEN content
                ELSE [content EXCEPT ![saveCalls[i].section] =
                        UpdatedContent(responseContent, saveCalls[i].newContent)]
  /\ savingSections' = FinallyClearSaving(savingSections, saveCalls[i].section, TRUE)
  /\ LET saved == IF responseContent = Nullish THEN saveCalls[i].newContent ELSE responseContent
     IN /\ latestOverride' = [latestOverride EXCEPT ![saveCalls[i].section] = saved]
        /\ everOverride' = [everOverride EXCEPT ![saveCalls[i].section] = saved]
  /\ UNCHANGED <<loading, error, loadCalls>>
  /\ UNCHANGED notContentVars

\* updateSection, lines 704-716: the PUT resolved; responseContent is
\* response?.content (Nullish when the response has none)
UpdateSectionOk(i, responseContent) ==
  /\ saveCalls[i].st = "pending"
  /\ saveCalls' = [saveCalls EXCEPT ![i].st = "ok", ![i].newContent = Nullish]
  /\ lastSave' = [id |-> i, section |-> saveCalls[i].section, newContent |-> saveCalls[i].newContent,
                  echoed |-> responseContent, thrown |-> <<>>]
  /\ content' = [content EXCEPT ![saveCalls[i].section] =
                   UpdatedContent(responseContent, saveCalls[i].newContent)]
  /\ savingSections' = FinallyClearSaving(savingSections, saveCalls[i].section, TRUE)
  /\ LET saved == IF responseContent = Nullish THEN saveCalls[i].newContent ELSE responseContent
     IN /\ latestOverride' = [latestOverride EXCEPT ![saveCalls[i].section] = saved]
        /\ everOverride' = [everOverride EXCEPT ![saveCalls[i].section] = saved]
  /\ UNCHANGED <<loading, error, loadCalls>>
  /\ UNCHANGED notContentVars

\* UpdateSectionFail after an optimistic write of the caller's value
UpdateSectionFail_partialWrite(i, status) ==
  /\ saveCalls[i].st = "pending"
  /\ saveCalls' = [saveCalls EXCEPT ![i].st = "failed", ![i].newContent = Nullish]
  /\ lastSave' = [id |-> i, section |-> saveCalls[i].section, newContent |-> saveCalls[i].newContent,
                  echoed |-> Nullish, thrown |-> <<status>>]
  /\ content' = [content EXCEPT ![saveCalls[i].section] = saveCalls[i].newContent]
  /\ savingSections' = FinallyClearSaving(savingSections, saveCalls[i].section, FALSE)
  /\ UNCHANGED <<loading, error, loadCalls, latestOverride, everOverride>>
  /\ UNCHANGED notContentVars

\* updateSection, lines 710-716: the PUT rejected; the error is rethrown
UpdateSectionFail(i, status) ==
  /\ saveCalls[i].st = "pending"
  /\ saveCalls' = [saveCalls EXCEPT ![i].st = "failed", ![i].newContent = Nullish]
  /\ lastSave' = [id |-> i, section |-> saveCalls[i].section, newContent |-> saveCalls[i].newContent,
                  echoed |-> Nullish, thrown |-> <<status>>]
  /\ savingSections' = FinallyClearSaving(savingSections, saveCalls[i].section, FALSE)
  /\ UNCHANGED <<content, loading, error, loadCalls, latestOverride, everOverride>>
  /\ UNCHANGED notContentVars

NextContent ==
  \/ RefreshContent
  \/ \E i \in LoadIds, items \in ContentResponses : LoadContentOk(i, items)
  \/ \E i \in LoadIds, status \in ContentErrors : LoadContentFail(i, status)
  \/ \E section \in CONTENT_SECTIONS, newContent \in Values : UpdateSection(section, newContent)
  \/ \E i \in SaveIds, responseContent \in Values \cup {Nullish} : UpdateSectionOk(i, responseContent)
  \/ \E i \in SaveIds, status \in ContentErrors : UpdateSectionFail(i, status)



(***************************************************************************)
(* Published-page cache.                                                   *)
(*                                                                         *)
(* React applies the updates of a state hook at the next render, in the    *)
(* order of the setter calls; an updater function passed to a setter runs  *)
(* then, against the state the earlier updates produced.  When the         *)
(* component has no update pending, React may instead run the updater      *)
(* inside the setter call (eager state).  The updater of                   *)
(* invalidatePageCache assigns pageCacheRef, so the queue of pageCache is  *)
(* part of the state; the setters of the other hooks are given values or   *)
(* pure updaters and are applied where they are called.  The effect of     *)
(* lines 608-612 copies publishedPageSlugs to its ref after the render.    *)
(***************************************************************************)
EmptyCache == [k \in Slugs |-> Absent]

\* setPageCache(nextCache)
SetUpdate(cache) == [type |-> "set", cache |-> cache, slug |-> "-"]

\* setPageCache((prev) => ...) of invalidatePageCache(slug)
UpdaterUpdate(k) == [type |-> "updater", cache |-> EmptyCache, slug |-> k]

\* a call in flight: pc is "refresh" (awaiting loadPublishedPages, line
\* 636), "wait" (awaiting the timer, lines 637-640, after a refresh that
\* resolved), "failed" (awaiting the timer after a refresh that rejected)
\* or "net" (awaiting api.getPublishedPage, line 650)
FetchCall(k, force, pc) == [slug |-> k, force |-> force, pc |-> pc, sig |-> "none"]

\* the signal option of a fetchPublishedPage call: none, or the signal of
\* an AbortController of the caller
FetchSignals == {"none", "live", "aborted"}

\* every call that can be in flight
AllCalls ==
  { [FetchCall(k, force, pc) EXCEPT !.sig = sig] :
      k \in Slugs, force \in BOOLEAN, pc \in {"refresh", "wait", "failed", "net"},
      sig \in FetchSignals }

InFlight == BagToSet(fetchCalls)

AddCall(bag, c) == bag (+) SetToBag({c})
RemoveCall(bag, c) == bag (-) SetToBag({c})

\* no promise of fetchPublishedPage has just settled
NoFetch == [slug |-> "-", force |-> FALSE, via |-> "none", value |-> Absent, status |-> <<>>,
            net |-> 0, refreshes |-> 0]

\* the outcome of a call: via is "hit" (lines 623-625), "fresh" (654),
\* "stale" (656-658), "gate404" (642-646), "fail404" (660-664) or
\* "error" (665); value is the bundle it resolves with, status the status
\* of the error it rejects with, net and refreshes count its calls of
\* api.getPublishedPage and of loadPublishedPages
Outcome(k, force, via, value, status, net, refreshes) ==
  [slug |-> k, force |-> force, via |-> via, value |-> value, status |-> status,
   net |-> net, refreshes |-> refreshes]

\* IsPublished that takes every slug as published
IsPublished_always(slugSet, k) == TRUE

\* buildSlugSet(values).has(normalizedSlug), lines 626-631
IsPublished(slugSet, k) == k \in slugSet

\* CacheFastPath that does not look at force
CacheFastPath_ignoresForce(force, ref, k) == ref[k] # Absent

\* line 623: !force && pageCacheRef.current[normalizedSlug]
CacheFastPath(force, ref, k) == ~force /\ ref[k] # Absent

\* lines 633-635: the call has to refresh the Published Slug Set first
NeedsGateRefresh(force, slugSet, k) == ~force /\ ~IsPublished(slugSet, k)

\* GatePasses without the second check of the set
GatePasses_unchecked(slugSet, k) == TRUE

\* lines 641-646: after the refresh the call goes on to the endpoint
GatePasses(slugSet, k) == IsPublished(slugSet, k)

\* FailureOutcome without the fallback to the cached entry
FailureOutcome_noStale(force, ref, slugSet, k) ==
  IF ~IsPublished(slugSet, k) THEN "fail404" ELSE "error"

\* lines 655-665: how a call ends whose page fetch rejected
FailureOutcome(force, ref, slugSet, k) ==
  IF ~force /\ ref[k] # Absent THEN "stale"
  ELSE IF ~IsPublished(slugSet, k) THEN "fail404"
  ELSE "error"

\* lines 676-684: the updater of invalidatePageCache(slug), with its
\* assignment to pageCacheRef.current
InvalidateUpdater(prev, ref, k) ==
  IF prev[k] = Absent
  THEN [state |-> prev, ref |-> ref]
  ELSE [state |-> [prev EXCEPT ![k] = Absent], ref |-> [prev EXCEPT ![k] = Absent]]

\* the render applies the queued updates in order
RECURSIVE ApplyUpdates(_, _, _)
ApplyUpdates(queue, state, ref) ==
  IF queue = <<>>
  THEN [state |-> state, ref |-> ref]
  ELSE LET u == Head(queue)
       IN IF u.type = "set"
          THEN ApplyUpdates(Tail(queue), u.cache, ref)
          ELSE LET r == InvalidateUpdater(state, ref, u.slug)
               IN ApplyUpdates(Tail(queue), r.state, r.ref)

\* history after a successful page fetch has written the entry of k
HistoryAfterWrite(k, force) ==
  [history EXCEPT ![k] = IF ~force \/ history[k] = "fetched" THEN "fetched" ELSE "none"]

\* state after the first render and its mount effect (lines 693-696):
\* loadPublishedPages has run up to its await
InitPages ==
  /\ pageCache = EmptyCache
  /\ pageCacheRef = EmptyCache
  /\ pageCacheQueue = <<>>
  /\ dirty = FALSE
  /\ publishedPageSlugs = {}
  /\ publishedPageSlugsRef = {}
  /\ slugLoads = 1
  /\ fetchCalls = EmptyBag
  /\ calls = 0
  /\ settled = NoFetch
  /\ history = [k \in Slugs |-> "none"]

\* the continuation of the caller of a settled pages.fetch runs: it is a
\* microtask, so no timer, response or render comes before it
Deliver ==
  /\ settled # NoFetch
  /\ settled' = NoFetch
  /\ UNCHANGED <<pageCache, pageCacheRef, pageCacheQueue, dirty, publishedPageSlugs,
                 publishedPageSlugsRef, slugLoads, fetchCalls, calls, history>>
  /\ UNCHANGED notPageVars

\* a render of ContentProvider and the effects after it
Render ==
  /\ settled = NoFetch
  /\ dirty
  /\ LET r == ApplyUpdates(pageCacheQueue, pageCache, pageCacheRef)
     IN /\ pageCache' = r.state
        /\ pageCacheRef' = r.ref
  /\ pageCacheQueue' = <<>>
  /\ publishedPageSlugsRef' = publishedPageSlugs
  /\ dirty' = FALSE
  /\ UNCHANGED <<publishedPageSlugs, slugLoads, fetchCalls, calls, settled, history>>
  /\ UNCHANGED notPageVars

\* pages.refresh = loadPublishedPages, lines 594-598, up to the await
RefreshPublishedPages ==
  /\ settled = NoFetch
  /\ calls < MaxCalls
  /\ calls' = calls + 1
  /\ slugLoads' = slugLoads + 1
  /\ dirty' = TRUE
  /\ UNCHANGED <<pageCache, pageCacheRef, pageCacheQueue, publishedPageSlugs,
                 publishedPageSlugsRef, fetchCalls, settled, history>>
  /\ UNCHANGED notPageVars

\* loadPublishedPages, lines 599-600 and 605: the request resolved
PublishedPagesOk(items) ==
  /\ settled = NoFetch
  /\ slugLoads > 0
  /\ slugLoads' = slugLoads - 1
  /\ publishedPageSlugs' = items
  /\ dirty' = TRUE
  /\ UNCHANGED <<pageCache, pageCacheRef, pageCacheQueue, publishedPageSlugsRef,
                 fetchCalls, calls, settled, history>>
  /\ UNCHANGED notPageVars

\* loadPublishedPages, lines 601-605: the request rejected
PublishedPagesFail ==
  /\ settled = NoFetch
  /\ slugLoads > 0
  /\ slugLoads' = slugLoads - 1
  /\ dirty' = TRUE
  /\ UNCHANGED <<pageCache, pageCacheRef, pageCacheQueue, publishedPageSlugs,
                 publishedPageSlugsRef, fetchCalls, calls, settled, history>>
  /\ UNCHANGED notPageVars

\* fetchPublishedPage, lines 623-650, up to its first await; k is the
\* normalized slug and sig the signal option
FetchBody(k, force, sig) ==
  /\ IF CacheFastPath(force, pageCacheRef, k)
     THEN \* lines 623-625
          /\ settled' = Outcome(k, force, "hit", pageCacheRef[k], <<>>, 0, 0)
          /\ UNCHANGED <<fetchCalls, dirty>>
     ELSE IF NeedsGateRefresh(force, publishedPageSlugsRef, k)
     THEN \* lines 633-636 and 595-598
          /\ fetchCalls' = AddCall(fetchCalls, [FetchCall(k, force, "refresh") EXCEPT !.sig = sig])
          /\ dirty' = TRUE
          /\ UNCHANGED settled
     ELSE \* line 650
          /\ fetchCalls' = AddCall(fetchCalls, [FetchCall(k, force, "net") EXCEPT !.sig = sig])
          /\ UNCHANGED <<settled, dirty>>
  /\ UNCHANGED <<pageCache, pageCacheRef, pageCacheQueue, publishedPageSlugs,
                 publishedPageSlugsRef, slugLoads, history>>

\* fetchPublishedPage, lines 614-650, called with a slug that is in its
\* normalized form k and without a signal
FetchStart(k, force) ==
  /\ settled = NoFetch
  /\ calls < MaxCalls
  /\ calls' = calls + 1
  /\ FetchBody(k, force, "none")
  /\ UNCHANGED notPageVars

\* lines 599-600, 605 and 636-639: the refresh of the call resolved
GateRefreshOk(c, items) ==
  /\ settled = NoFetch
  /\ c \in InFlight
  /\ c.pc = "refresh"
  /\ fetchCalls' = AddCall(RemoveCall(fetchCalls, c), [c EXCEPT !.pc = "wait"])
  /\ publishedPageSlugs' = items
  /\ dirty' = TRUE
  /\ UNCHANGED <<pageCache, pageCacheRef, pageCacheQueue, publishedPageSlugsRef,
                 slugLoads, calls, settled, history>>
  /\ UNCHANGED notPageVars

\* GateRefreshFail that rejects the call with the error of the refresh
GateRefreshFail_throws(c) ==
  /\ settled = NoFetch
  /\ c \in InFlight
  /\ c.pc = "refresh"
  /\ fetchCalls' = RemoveCall(fetchCalls, c)
  /\ settled' = Outcome(c.slug, c.force, "error", Absent, <<NoStatus>>, 0, 1)
  /\ dirty' = TRUE
  /\ UNCHANGED <<pageCache, pageCacheRef, pageCacheQueue, publishedPageSlugs,
                 publishedPageSlugsRef, slugLoads, calls, history>>
  /\ UNCHANGED notPageVars

\* lines 601-605 and 636-639: the refresh of the call rejected; the error
\* is recorded and not thrown
GateRefreshFail(c) ==
  /\ settled = NoFetch
  /\ c \in InFlight
  /\ c.pc = "refresh"
  /\ fetchCalls' = AddCall(RemoveCall(fetchCalls, c), [c EXCEPT !.pc = "failed"])
  /\ dirty' = TRUE
  /\ UNCHANGED <<pageCache, pageCacheRef, pageCacheQueue, publishedPageSlugs,
                 publishedPageSlugsRef, slugLoads, calls, settled, history>>
  /\ UNCHANGED notPageVars

\* lines 637-650: the timer of setTimeout(resolve, 0) fired; the render the
\* refresh scheduled before the timer was set has run by then
GateRecheck(c) ==
  /\ settled = NoFetch
  /\ c \in InFlight
  /\ c.pc \in {"wait", "failed"}
  /\ ~dirty
  /\ IF GatePasses(publishedPageSlugsRef, c.slug)
     THEN /\ fetchCalls' = AddCall(RemoveCall(fetchCalls, c), [c EXCEPT !.pc = "net"])
          /\ UNCHANGED settled
     ELSE /\ fetchCalls' = RemoveCall(fetchCalls, c)
          /\ settled' = Outcome(c.slug, c.force, "gate404", Absent, <<404>>, 0, 1)
  /\ UNCHANGED <<pageCache, pageCacheRef, pageCacheQueue, dirty, publishedPageSlugs,
                 publishedPageSlugsRef, slugLoads, calls, history>>
  /\ UNCHANGED notPageVars

\* lines 650-654: the page fetch resolved with data
FetchOk(c, data) ==
  /\ settled = NoFetch
  /\ c \in InFlight
  /\ c.pc = "net"
  /\ LET nextCache == [pageCacheRef EXCEPT ![c.slug] = data]
     IN /\ pageCacheRef' = nextCache
        /\ pageCacheQueue' = Append(pageCacheQueue, SetUpdate(nextCache))
  /\ dirty' = TRUE
  /\ settled' = Outcome(c.slug, c.force, "fresh", data, <<>>, 1, 0)
  /\ history' = HistoryAfterWrite(c.slug, c.force)
  /\ fetchCalls' = RemoveCall(fetchCalls, c)
  /\ UNCHANGED <<pageCache, publishedPageSlugs, publishedPageSlugsRef, slugLoads, calls>>
  /\ UNCHANGED notPageVars

\* FetchFail that drops the entry of the slug when the call rejects
FetchFail_dropsEntry(c, status) ==
  /\ settled = NoFetch
  /\ c \in InFlight
  /\ c.pc = "net"
  /\ LET via == FailureOutcome(c.force, pageCacheRef, publishedPageSlugsRef, c.slug)
     IN /\ settled' = Outcome(c.slug, c.force, via,
                              IF via = "stale" THEN pageCacheRef[c.slug] ELSE Absent,
                              IF via = "stale" THEN <<>> ELSE IF via = "fail404" THEN <<404>> ELSE <<status>>,
                              1, 0)
        /\ pageCacheRef' = IF via = "stale" THEN pageCacheRef
                           ELSE [pageCacheRef EXCEPT ![c.slug] = Absent]
  /\ fetchCalls' = RemoveCall(fetchCalls, c)
  /\ UNCHANGED <<pageCache, pageCacheQueue, dirty, publishedPageSlugs,
                 publishedPageSlugsRef, slugLoads, calls, history>>
  /\ UNCHANGED notPageVars

\* lines 655-666: the page fetch rejected with an error of this status
FetchFail(c, status) ==
  /\ settled = NoFetch
  /\ c \in InFlight
  /\ c.pc = "net"
  /\ LET via == FailureOutcome(c.force, pageCacheRef, publishedPageSlugsRef, c.slug)
     IN settled' = Outcome(c.slug, c.force, via,
                           IF via = "stale" THEN pageCacheRef[c.slug] ELSE Absent,
                           IF via = "stale" THEN <<>> ELSE IF via = "fail404" THEN <<404>> ELSE <<status>>,
                           1, 0)
  /\ fetchCalls' = RemoveCall(fetchCalls, c)
  /\ UNCHANGED <<pageCache, pageCacheRef, pageCacheQueue, dirty, publishedPageSlugs,
                 publishedPageSlugsRef, slugLoads, calls, history>>
  /\ UNCHANGED notPageVars

\* invalidatePageCache(slug), lines 676-685; k is the normalized slug.
\* The updater runs inside the call (eager) only when no update is pending
InvalidateBody(k, eager) ==
  /\ eager => ~dirty
  /\ history' = [history EXCEPT ![k] = "invalidated"]
  /\ IF eager
     THEN LET r == InvalidateUpdater(pageCache, pageCacheRef, k)
          IN /\ pageCacheRef' = r.ref
             /\ IF r.state = pageCache
                THEN UNCHANGED <<pageCacheQueue, dirty>>
                ELSE /\ pageCacheQueue' = Append(pageCacheQueue, SetUpdate(r.state))
                     /\ dirty' = TRUE
     ELSE /\ pageCacheQueue' = Append(pageCacheQueue, UpdaterUpdate(k))
          /\ dirty' = TRUE
          /\ UNCHANGED pageCacheRef
  /\ UNCHANGED <<pageCache, publishedPageSlugs, publishedPageSlugsRef,
                 slugLoads, fetchCalls, settled>>

\* invalidatePageCache(slug), lines 670-686, called with a slug that is in
\* its normalized form k
InvalidateSlug(k, eager) ==
  /\ settled = NoFetch
  /\ calls < MaxCalls
  /\ calls' = calls + 1
  /\ InvalidateBody(k, eager)
  /\ UNCHANGED notPageVars

\* invalidatePageCache(), lines 687-688
InvalidateAllBody ==
  /\ history' = [k \in Slugs |-> "invalidated"]
  /\ pageCacheRef' = EmptyCache
  /\ pageCacheQueue' = Append(pageCacheQueue, SetUpdate(EmptyCache))
  /\ dirty' = TRUE
  /\ UNCHANGED <<pageCache, publishedPageSlugs, publishedPageSlugsRef,
                 slugLoads, fetchCalls, settled>>

\* invalidatePageCache() called without an argument
InvalidateAll ==
  /\ settled = NoFetch
  /\ calls < MaxCalls
  /\ calls' = calls + 1
  /\ InvalidateAllBody
  /\ UNCHANGED notPageVars

\* the lists GET /pages/published returns: no page, one page, both pages
PublishedLists == {{}, {"about"}, Slugs}

NextPages ==
  \/ Deliver
  \/ Render
  \/ RefreshPublishedPages
  \/ \E items \in PublishedLists : PublishedPagesOk(items)
  \/ PublishedPagesFail
  \/ \E k \in Slugs, force \in BOOLEAN : FetchStart(k, force)
  \/ \E c \in AllCalls, items \in PublishedLists : GateRefreshOk(c, items)
  \/ \E c \in AllCalls : GateRefreshFail(c)
  \/ \E c \in AllCalls : GateRecheck(c)
  \/ \E c \in AllCalls, data \in Bundles : FetchOk(c, data)
  \/ \E c \in AllCalls, status \in PageErrors : FetchFail(c, status)
  \/ \E k \in Slugs, eager \in BOOLEAN : InvalidateSlug(k, eager)
  \/ InvalidateAll

(***************************************************************************)
(* Transport: ApiClient (src/src/api/client.js).                           *)
(*                                                                         *)
(* request() is cut at its awaits: the call of fetch (line 183) and the    *)
(* read of the body (lines 201 and 209).  Aborting the AbortController     *)
(* rejects the pending promise inside the abort steps and the catch block  *)
(* runs in the microtasks of the same task, so that an abort and the       *)
(* handling of its rejection are one action.  login and logout continue    *)
(* in the microtasks of the settling request and are part of its action.   *)
(***************************************************************************)
\* characters of a string given to setToken: whitespace and another one
TokenChars == {" ", "a"}

\* a JavaScript value: its type and, for a string, its characters
JsValue(t, s) == [t |-> t, s |-> s]

\* null
Null == JsValue("null", <<>>)

\* strings of up to MaxTokenLen characters
Strings == UNION { [1..n -> TokenChars] : n \in 0..MaxTokenLen }

\* the values callers and login responses hand to setToken
TokenInputs ==
  { JsValue(t, <<>>) : t \in {"null", "undefined", "zero", "number", "false", "object"} }
    \cup { JsValue("string", s) : s \in Strings }

\* ToBoolean(x)
Truthy(x) ==
  /\ x.t \notin {"null", "undefined", "zero", "false"}
  /\ ~(x.t = "string" /\ x.s = <<>>)

RECURSIVE TrimStart(_)
TrimStart(s) == IF s # <<>> /\ Head(s) = " " THEN TrimStart(Tail(s)) ELSE s

RECURSIVE TrimEnd(_)
TrimEnd(s) == IF s # <<>> /\ s[Len(s)] = " " THEN TrimEnd(SubSeq(s, 1, Len(s) - 1)) ELSE s

\* String.prototype.trim
Trim(s) == TrimEnd(TrimStart(s))

\* setToken storing every truthy string
setToken_anyString(x) ==
  IF ~Truthy(x) THEN Null
  ELSE IF x.t = "string" THEN x ELSE Null

\* setToken, lines 64-76: the value this.token has afterwards
setToken(x) ==
  IF ~Truthy(x) THEN Null
  ELSE IF x.t = "string" /\ Len(Trim(x.s)) > 0 THEN x ELSE Null

\* getHeaders, lines 77-83: whether the Authorization header is set
getHeaders(tok) == Truthy(tok)

\* ---- anti-forgery header ----
CSRF_COOKIE_NAME == "ltcms_csrf"

\* absence of a header, and of a cookie value
NoHeader == <<>>

\* document.cookie: a sequence of cookies; the value of a cookie is the
\* sequence of the pieces its text has between "=" characters
Cookie(name, pieces) == [name |-> name, pieces |-> pieces]

Cookies ==
  { <<>>,
    << Cookie("theme", <<"dark">>) >>,
    << Cookie(CSRF_COOKIE_NAME, <<"t1">>) >>,
    << Cookie("theme", <<"dark">>), Cookie(CSRF_COOKIE_NAME, <<"t1">>) >>,
    << Cookie(CSRF_COOKIE_NAME, <<"t2", "">>) >>,
    << Cookie(CSRF_COOKIE_NAME, <<"">>) >> }

\* document.cookie of a session
SessionCookies == << Cookie(CSRF_COOKIE_NAME, <<"t1">>) >>

\* x-csrf-token values callers pass in options.headers
CallerCsrf == {NoHeader, <<"c">>}

Methods == {"GET", "HEAD", "OPTIONS", "POST"}

\* getCsrfToken, lines 50-59: the first cookie named ltcms_csrf, split at
\* "=", element 1; "" when there is none (null and "" are both falsy at
\* line 178)
getCsrfToken(jar) ==
  LET named == {i \in DOMAIN jar : jar[i].name = CSRF_COOKIE_NAME}
  IN IF named = {} THEN ""
     ELSE jar[CHOOSE i \in named : \A j \in named : i <= j].pieces[1]

\* line 175
requiresCsrf(method) == method \notin {"GET", "HEAD", "OPTIONS"}

\* CsrfHeader injecting the cookie for every method
CsrfHeader_everyMethod(method, callerCsrf, jar) ==
  IF callerCsrf = NoHeader
  THEN IF getCsrfToken(jar) # "" THEN <<getCsrfToken(jar)>> ELSE NoHeader
  ELSE callerCsrf

\* lines 147 and 175-181: the x-csrf-token header of the outgoing request
CsrfHeader(method, callerCsrf, jar) ==
  IF requiresCsrf(method) /\ callerCsrf = NoHeader
  THEN IF getCsrfToken(jar) # "" THEN <<getCsrfToken(jar)>> ELSE NoHeader
  ELSE callerCsrf

NoSent == [method |-> "-", auth |-> FALSE, callerCsrf |-> NoHeader, jar |-> <<>>, csrf |-> NoHeader]

\* ---- request() ----
\* the methods of ApiClient that are modelled: a plain request(), login()
\* and logout()
Kinds == {"request", "login", "logout"}

\* options.signal: none, a signal that is not aborted, an aborted one
Signals == {"none", "live", "aborted"}

\* response statuses
Statuses == {200, 204, 401, 403, 500}

\* response bodies: content-length 0, application/json, text/plain, text/html
Bodies == {"empty", "json", "text", "html"}

\* what the read of a body delivers
Contents == {"content", "blank", "garbled"}

\* the awaits of request(): fetch (line 183), response.json() (line 201)
\* and response.text() (line 209)
Phases == {"fetch", "json", "text"}

\* line 199: the await that reads a body
BodyPhase(body) == IF body = "json" THEN "json" ELSE "text"

\* a request() call in flight, the await it is at and the status of the
\* response it has received (0 at "fetch")
Req(kind, sig, phase, status) == [kind |-> kind, sig |-> sig, phase |-> phase, status |-> status]

AllRequests ==
  { Req(kind, sig, "fetch", 0) : kind \in Kinds, sig \in Signals }
    \cup { Req(kind, sig, phase, status) :
             kind \in Kinds, sig \in Signals, phase \in Phases \ {"fetch"}, status \in Statuses }

Pending == BagToSet(requests)

\* the outcome of a request() call: how it settled, error.status of a
\* rejection (NoStatus when the error has none), the value of a resolution,
\* the event that ended the call, and the response it had received
Done(kind, outcome, status, value, cause, response, body, full) ==
  [kind |-> kind, outcome |-> outcome, status |-> status, value |-> value, cause |-> cause,
   response |-> response, body |-> body, full |-> full]

\* no call has just settled
NoDone == Done("-", "none", NoStatus, "-", "-", 0, "-", FALSE)

\* response.ok
Ok(status) == status \in 200..299

\* line 184-187
isEmptyBody(status, body) == status \in {204, 205} \/ body = "empty"

\* EmptyBodyOutcome without the check of response.ok
EmptyBodyOutcome_ignoresStatus(kind, status, body) ==
  Done(kind, "resolved", NoStatus, "null", "response", status, body, TRUE)

\* lines 188-196, and the catch block for the error thrown at line 192
EmptyBodyOutcome(kind, status, body) ==
  IF Ok(status)
  THEN Done(kind, "resolved", NoStatus, "null", "response", status, body, TRUE)
  ELSE Done(kind, "rejected", status, "-", "response", status, body, TRUE)

\* lines 199-227 for a body that was read, and the catch block for the
\* errors thrown at lines 206 and 224: unparsable JSON (an empty JSON body
\* included) rejects with the status of the response, an empty text gives a
\* null payload
PayloadOutcome(c, text) ==
  IF c.phase = "json" /\ text # "content"
  THEN Done(c.kind, "rejected", c.status, "-", "garbled", c.status, c.phase, TRUE)
  ELSE IF Ok(c.status)
       THEN Done(c.kind, "resolved", NoStatus, IF text = "blank" THEN "null" ELSE "payload",
                 "response", c.status, c.phase, TRUE)
       ELSE Done(c.kind, "rejected", c.status, "-", "response", c.status, c.phase, TRUE)

\* line 232: userSignal?.aborted ? 0 : 408
AbortStatus(sig) == IF sig = "aborted" THEN 0 ELSE 408

\* the controller is aborted while c is pending, by the timer ("timeout")
\* or by handleAbort ("caller"); sig is the caller's signal at that time.
\* fetch and response.text() reject with an AbortError (lines 230-235);
\* the AbortError of response.json() is caught at line 202 and rethrown
\* as a parse error with the status of the response
AbortOutcome(c, by, sig) ==
  IF c.phase = "json"
  THEN Done(c.kind, "rejected", c.status, "-", by, c.status, c.phase, FALSE)
  ELSE Done(c.kind, "rejected", AbortStatus(sig), "-", by, c.status, c.phase, FALSE)

\* the connection fails: fetch and response.text() reject with a TypeError
\* that has no status (rethrown at line 240), response.json() as above
NetworkOutcome(c) ==
  IF c.phase = "json"
  THEN Done(c.kind, "rejected", c.status, "-", "network", c.status, c.phase, FALSE)
  ELSE Done(c.kind, "rejected", NoStatus, "-", "network", c.status, c.phase, FALSE)

\* TokenAfterRequest clearing the token on 401 only
TokenAfterRequest_only401(tok, d) ==
  IF d.outcome = "rejected" /\ d.status = 401 THEN setToken(Null) ELSE tok

\* lines 217-219 and 237-239: this.token after request() has settled
TokenAfterRequest(tok, d) ==
  IF d.outcome = "rejected" /\ d.status \in {401, 403} THEN setToken(Null) ELSE tok

\* TokenAfterCall with logout clearing the token after the await
TokenAfterCall_logoutOnSuccess(kind, tok, d, dataToken) ==
  IF kind = "login" /\ d.outcome = "resolved" /\ d.value = "payload" /\ Truthy(dataToken)
  THEN setToken(dataToken)
  ELSE IF kind = "logout" /\ d.outcome = "resolved" THEN setToken(Null) ELSE tok

\* login, lines 249-251 (data.token of a null payload throws), and logout,
\* lines 257-259 (finally): this.token after the method has settled
TokenAfterCall(kind, tok, d, dataToken) ==
  IF kind = "login" /\ d.outcome = "resolved" /\ d.value = "payload" /\ Truthy(dataToken)
  THEN setToken(dataToken)
  ELSE IF kind = "logout" THEN setToken(Null) ELSE tok

InitTransport ==
  /\ token = Null
  /\ requests = EmptyBag
  /\ nreq = 0
  /\ done = NoDone
  /\ sent = NoSent
  /\ leakedTimers = 0
  /\ leakedListeners = 0

\* request() c settles with outcome d: cleanup() (lines 194, 226, 229) clears
\* its timer and removes its listener
Settle(c, d, dataToken) ==
  /\ done = NoDone
  /\ requests' = requests (-) SetToBag({c})
  /\ done' = d
  /\ token' = TokenAfterCall(c.kind, TokenAfterRequest(token, d), d, dataToken)
  /\ UNCHANGED <<nreq, sent, leakedTimers, leakedListeners>>
  /\ UNCHANGED notTransportVars

\* api.setToken(x) by AuthProvider
SetToken(x) ==
  /\ done = NoDone
  /\ token' = setToken(x)
  /\ UNCHANGED <<requests, nreq, done, sent, leakedTimers, leakedListeners>>
  /\ UNCHANGED notTransportVars

\* request(), lines 84-183, up to the await of fetch.  The timer and the
\* listener are set at lines 114-119; when building the request throws
\* (headers.set at lines 126-142, JSON.stringify at line 173) the call
\* rejects outside the try block with that error.  Calls are issued one
\* after the other
Request(kind, method, sig, callerCsrf, jar, built) ==
  /\ done = NoDone
  /\ nreq < MaxRequests
  /\ requests = EmptyBag
  /\ kind # "request" => (method = "POST" /\ callerCsrf = NoHeader /\ built)
  /\ nreq' = nreq + 1
  /\ IF built
     THEN /\ requests' = requests (+) SetToBag({Req(kind, sig, "fetch", 0)})
          /\ sent' = [method |-> method, auth |-> getHeaders(token), callerCsrf |-> callerCsrf,
                      jar |-> jar, csrf |-> CsrfHeader(method, callerCsrf, jar)]
          /\ UNCHANGED <<done, leakedTimers, leakedListeners>>
     ELSE /\ done' = Done(kind, "rejected", NoStatus, "-", "build", 0, "-", FALSE)
          /\ leakedTimers' = leakedTimers + 1
          /\ leakedListeners' = leakedListeners + (IF sig = "none" THEN 0 ELSE 1)
          /\ UNCHANGED <<requests, sent>>
  /\ UNCHANGED token
  /\ UNCHANGED notTransportVars

\* fetch resolves with a response, lines 183-198
Respond(c, status, body) ==
  /\ c \in Pending
  /\ c.phase = "fetch"
  /\ IF isEmptyBody(status, body)
     THEN Settle(c, EmptyBodyOutcome(c.kind, status, body), Null)
     ELSE /\ done = NoDone
          /\ requests' = (requests (-) SetToBag({c})) (+)
                            SetToBag({Req(c.kind, c.sig, BodyPhase(body), status)})
          /\ UNCHANGED <<token, nreq, done, sent, leakedTimers, leakedListeners>>
          /\ UNCHANGED notTransportVars

\* the body has been read, lines 199-227; dataToken is data.token of a
\* login response
ReadBody(c, text, dataToken) ==
  /\ c \in Pending
  /\ c.phase # "fetch"
  /\ text = "garbled" => c.phase = "json"
  /\ (c.kind # "login" \/ c.phase # "json" \/ text # "content") => dataToken = Null
  /\ Settle(c, PayloadOutcome(c, text), dataToken)

\* the connection fails while fetch or the read of the body is pending
NetworkFails(c) ==
  /\ c \in Pending
  /\ Settle(c, NetworkOutcome(c), Null)

\* the timer of line 117 fires while c is pending
TimeoutFires(c) ==
  /\ c \in Pending
  /\ Settle(c, AbortOutcome(c, "timeout", c.sig), Null)

\* the caller aborts the signal of c while c is pending: handleAbort runs
CallerAborts(c) ==
  /\ c \in Pending
  /\ c.sig = "live"
  /\ Settle(c, AbortOutcome(c, "caller", "aborted"), Null)

\* the timer of a call that rejected while building its request fires
LeakedTimerFires ==
  /\ done = NoDone
  /\ leakedTimers > 0
  /\ leakedTimers' = leakedTimers - 1
  /\ UNCHANGED <<token, requests, nreq, done, sent, leakedListeners>>
  /\ UNCHANGED notTransportVars

\* the continuation of the caller of the settled call has run
Delivered ==
  /\ done # NoDone
  /\ done' = NoDone
  /\ UNCHANGED <<token, requests, nreq, sent, leakedTimers, leakedListeners>>
  /\ UNCHANGED notTransportVars

\* the transport with the cookies of a session and callers that pass no
\* headers
NextTransport ==
  \/ \E x \in TokenInputs : SetToken(x)
  \/ \E kind \in Kinds, method \in {"GET", "POST"}, sig \in Signals, built \in BOOLEAN :
        Request(kind, method, sig, NoHeader, SessionCookies, built)
  \/ Delivered
  \/ \E c \in AllRequests, status \in Statuses, body \in Bodies : Respond(c, status, body)
  \/ \E c \in AllRequests, text \in Contents, dataToken \in TokenInputs : ReadBody(c, text, dataToken)
  \/ \E c \in AllRequests : NetworkFails(c)
  \/ \E c \in AllRequests : TimeoutFires(c)
  \/ \E c \in AllRequests : CallerAborts(c)
  \/ LeakedTimerFires

\* the headers of requests that are answered with a JSON document
NextHeaders ==
  \/ \E x \in TokenInputs : SetToken(x)
  \/ \E method \in Methods, callerCsrf \in CallerCsrf, jar \in Cookies :
        Request("request", method, "none", callerCsrf, jar, TRUE)
  \/ \E c \in AllRequests : Respond(c, 200, "json")
  \/ \E c \in AllRequests : ReadBody(c, "content", Null)
  \/ Delivered

(***************************************************************************)
(* Navigation resolver: loadNavigation (src/src/AppRoutes.jsx, lines       *)
(* 580-593) and the navigationData memo (lines 718-769), a function of     *)
(* content.header, dynamicNavItems and publishedPageSlugs.                 *)
(***************************************************************************)
\* longest list of items GET /navigation answers with
MaxNavItems == 2

\* a slug as the server sends it: a sequence of pieces, each a blank or a
\* word in the letter case it was typed in
SlugWords == {"about", "About", "blog"}

\* String.prototype.toLowerCase on a word
toLowerCase(w) == IF w = "About" THEN "about" ELSE w

\* slug.trim().toLowerCase() (lines 619, 672, 739, 753): "" for a blank
\* slug; a slug of the model has at most one word
NormalizeSlug(raw) == IF Trim(raw) = <<>> THEN "" ELSE toLowerCase(Trim(raw)[1])

\* item.slug of the server's items: strings and a value that is no string
NavSlugs ==
  { JsValue("string", <<"About", " ">>), JsValue("string", <<"blog">>),
    JsValue("string", <<" ">>), JsValue("number", <<>>) }

\* item.order_index: <<>> when the item has none
Orders == {<<>>, <<-1>>, <<1>>}

\* an entry of data.items: null, or an object with slug and order_index
\* (the items of the model carry no id and no label)
NavItems ==
  [isNull : {FALSE}, slug : NavSlugs, order_index : Orders]
    \cup {[isNull |-> TRUE, slug |-> JsValue("undefined", <<>>), order_index |-> <<>>]}

\* the lists GET /navigation answers with
NavResponses == UNION { [1..n -> NavItems] : n \in 0..MaxNavItems }

\* headerContent.navItems of the header values of the model: the compiled
\* default has a list whose entries have ids (lines 503-508, shortened to
\* two entries), the override "a" has no navItems, the override "b" has a
\* list of an entry with only a path and an entry with nothing
NavItemsField(h) ==
  IF h.title = "default"
  THEN [isArray |-> TRUE,
        items |-> << [id |-> "features", slug |-> "-", path |-> "-", source |-> "-"],
                     [id |-> "blog", slug |-> "-", path |-> "/blog", source |-> "-"] >>]
  ELSE IF h.title = "b"
  THEN [isArray |-> TRUE,
        items |-> << [id |-> "-", slug |-> "-", path |-> "/docs", source |-> "-"],
                     [id |-> "-", slug |-> "-", path |-> "-", source |-> "cms"] >>]
  ELSE [isArray |-> FALSE, items |-> <<>>]

\* lines 719-720
staticNavItems(c) ==
  LET headerContent == Coalesce(c["header"], DEFAULT_CONTENT["header"])
  IN IF NavItemsField(headerContent).isArray THEN NavItemsField(headerContent).items ELSE <<>>

\* lines 721-725: item.id || item.slug || item.path || `static-${index}`
\* and item.source || 'static'; the index counts from 0
staticNormalized(c) ==
  [i \in DOMAIN staticNavItems(c) |->
     LET item == staticNavItems(c)[i]
     IN [item EXCEPT
           !.id = IF item.id # "-" THEN <<item.id>>
                  ELSE IF item.slug # "-" THEN <<item.slug>>
                  ELSE IF item.path # "-" THEN <<item.path>>
                  ELSE <<"static", i - 1>>,
           !.source = IF item.source # "-" THEN item.source ELSE "static"]]

\* restrictToPublished that filters against an empty set as well
restrictToPublished_always(pub) == TRUE

\* line 732: normalizedPublishedSlugs.size > 0; pub is the set of
\* normalized, non-blank slugs of publishedPageSlugs (lines 727-731)
restrictToPublished(pub) == pub # {}

\* KeepsDynamic that does not look at the published slugs
KeepsDynamic_anySlug(item, pub) ==
  /\ ~item.isNull
  /\ item.slug.t = "string"
  /\ NormalizeSlug(item.slug.s) # ""

\* lines 736-746: the predicate of the filter
KeepsDynamic(item, pub) ==
  /\ ~item.isNull
  /\ item.slug.t = "string"
  /\ NormalizeSlug(item.slug.s) # ""
  /\ restrictToPublished(pub) => NormalizeSlug(item.slug.s) \in pub

\* lines 734-748
filteredDynamic(dyn, pub) == SelectSeq(dyn, LAMBDA item : KeepsDynamic(item, pub))

\* OrderKey that puts the items without order_index last
OrderKey_missingLast(item) == IF item.order_index = <<>> THEN 1000 ELSE item.order_index[1]

\* line 750: a?.order_index ?? 0
OrderKey(item) == IF item.order_index = <<>> THEN 0 ELSE item.order_index[1]

\* x put behind every element of the sorted list s whose key is not larger
InsertByOrder(x, s) ==
  LET later == {i \in DOMAIN s : OrderKey(s[i]) > OrderKey(x)}
      at == IF later = {} THEN Len(s) + 1
            ELSE CHOOSE i \in later : \A j \in later : i <= j
  IN SubSeq(s, 1, at - 1) \o <<x>> \o SubSeq(s, at, Len(s))

\* lines 749-751: [...filteredDynamic].sort(by order_index); Array.prototype.sort
\* is stable
RECURSIVE sortedDynamic(_)
sortedDynamic(s) ==
  IF s = <<>> THEN <<>>
  ELSE InsertByOrder(s[Len(s)], sortedDynamic(SubSeq(s, 1, Len(s) - 1)))

\* lines 752-763; the index counts from 0, and item.label || item.slug is
\* the slug as sent, since the items of the model have no label
dynamicNormalized(s) ==
  [i \in DOMAIN s |->
     [id |-> <<"page", NormalizeSlug(s[i].slug.s), i - 1>>,
      label |-> s[i].slug.s,
      type |-> "route",
      path |-> <<"/pages/", NormalizeSlug(s[i].slug.s)>>,
      slug |-> NormalizeSlug(s[i].slug.s),
      source |-> "dynamic",
      order_index |-> IF s[i].order_index = <<>> THEN i - 1 ELSE s[i].order_index[1]]]

\* lines 718-769
navigationData(c, dyn, pub) ==
  LET st == staticNormalized(c)
      dy == dynamicNormalized(sortedDynamic(filteredDynamic(dyn, pub)))
  IN [static |-> st, dynamic |-> dy, items |-> st \o dy]

\* state after the first render and its mount effect (lines 693-696):
\* loadNavigation has run up to its await
InitNav ==
  /\ dynamicNavItems = <<>>
  /\ navLoading = TRUE
  /\ navError = <<>>
  /\ navPending = TRUE

\* loadNavigation, lines 584-586 and 590-592: the request resolved; isArray
\* tells whether data.items is an array
NavigationOk(isArray, items) ==
  /\ navPending
  /\ navPending' = FALSE
  /\ dynamicNavItems' = IF isArray THEN items ELSE <<>>
  /\ navLoading' = FALSE
  /\ UNCHANGED navError
  /\ UNCHANGED notNavVars

\* loadNavigation, lines 587-592: the request rejected
NavigationFail(status) ==
  /\ navPending
  /\ navPending' = FALSE
  /\ navError' = <<status>>
  /\ navLoading' = FALSE
  /\ UNCHANGED dynamicNavItems
  /\ UNCHANGED notNavVars

\* the three mount loads of ContentProvider (lines 690-696), each settling
\* once; the content response overrides at most the header section
NextNavigation ==
  \/ \E isArray \in BOOLEAN, items \in NavResponses : NavigationOk(isArray, items)
  \/ \E status \in ContentErrors : NavigationFail(status)
  \/ \E items \in SUBSET Slugs : PublishedPagesOk(items)
  \/ \E items \in {r \in ContentResponses : DOMAIN r \subseteq {"header"}} : LoadContentOk(1, items)

(***************************************************************************)
(* The pages interface as its callers use it: fetchPublishedPage with the  *)
(* slug as written and a signal (src/src/AppRoutes.jsx, lines 614-669),    *)
(* invalidatePageCache with the slug as written (lines 670-689).           *)
(***************************************************************************)
\* no slug argument
NoSlug == JsValue("undefined", <<>>)

\* slug arguments: spellings of about and blog, a blank string and none
SlugArgs ==
  { JsValue("string", <<"about">>), JsValue("string", <<"About">>),
    JsValue("string", <<"About", " ">>), JsValue("string", <<"blog">>),
    JsValue("string", <<" ">>), NoSlug }

\* ValidSlug that takes only slugs without blanks
ValidSlug_noBlanks(x) ==
  /\ x.t = "string"
  /\ x.s # <<>>
  /\ \A i \in DOMAIN x.s : x.s[i] # " "

\* lines 616-622: a non-empty string that is not blank
ValidSlug(x) ==
  /\ x.t = "string"
  /\ x.s # <<>>
  /\ NormalizeSlug(x.s) # ""

\* fetchPublishedPage(slug, {force, signal}), lines 614-650, up to its
\* first await; a slug that is not valid throws 'Slug is required', an
\* error without status
fetchPublishedPage(x, force, sig) ==
  /\ settled = NoFetch
  /\ calls < MaxCalls
  /\ calls' = calls + 1
  /\ lastSlug' = <<lastSlug[2], x>>
  /\ IF ValidSlug(x)
     THEN FetchBody(NormalizeSlug(x.s), force, sig)
     ELSE /\ settled' = Outcome("-", force, "invalid", Absent, <<NoStatus>>, 0, 0)
          /\ UNCHANGED <<pageCache, pageCacheRef, pageCacheQueue, dirty, publishedPageSlugs,
                         publishedPageSlugsRef, slugLoads, fetchCalls, history>>
  /\ UNCHANGED notPageOrArgVars

\* invalidatePageCache(slug), lines 670-689: a non-empty string addresses
\* its entry, and nothing when it is blank; every other argument clears
\* the cache
invalidatePageCache(x, eager) ==
  /\ settled = NoFetch
  /\ calls < MaxCalls
  /\ calls' = calls + 1
  /\ lastSlug' = <<lastSlug[2], x>>
  /\ IF x.t = "string" /\ x.s # <<>>
     THEN IF NormalizeSlug(x.s) = ""
          THEN /\ ~eager
               /\ UNCHANGED <<pageCache, pageCacheRef, pageCacheQueue, dirty, publishedPageSlugs,
                              publishedPageSlugsRef, slugLoads, fetchCalls, settled, history>>
          ELSE InvalidateBody(NormalizeSlug(x.s), eager)
     ELSE ~eager /\ InvalidateAllBody
  /\ UNCHANGED notPageOrArgVars

\* error.status of the rejection of api.getPublishedPage when the caller
\* aborts: 0 while fetch is pending (client.js, line 232), the status of
\* the response while its JSON body is read (client.js, lines 201-206)
AbortStatuses == {0, 200}

\* the caller aborts the signal of the call c.  A request in flight
\* listens to the signal (client.js, lines 113-116) and rejects; before the
\* request the call itself does not look at the signal, and the request it
\* sends later gets a signal that is aborted already
AbortFetch(c, status) ==
  /\ settled = NoFetch
  /\ c \in InFlight
  /\ c.sig = "live"
  /\ IF c.pc = "net"
     THEN FetchFail(c, status)
     ELSE /\ fetchCalls' = AddCall(RemoveCall(fetchCalls, c), [c EXCEPT !.sig = "aborted"])
          /\ UNCHANGED <<pageCache, pageCacheRef, pageCacheQueue, dirty, publishedPageSlugs,
                         publishedPageSlugsRef, slugLoads, calls, settled, history>>
          /\ UNCHANGED notPageVars

InitArgs == lastSlug = <<NoSlug, NoSlug>>

\* calls with slugs as written, without signal and not forced, while the
\* server lists both pages as published
NextSlugs ==
  \/ Deliver
  \/ Render
  \/ PublishedPagesOk(Slugs)
  \/ \E x \in SlugArgs : fetchPublishedPage(x, FALSE, "none")
  \/ \E c \in AllCalls : GateRefreshOk(c, Slugs)
  \/ \E c \in AllCalls : GateRecheck(c)
  \/ \E c \in AllCalls, data \in Bundles : FetchOk(c, data)
  \/ \E x \in SlugArgs, eager \in BOOLEAN : invalidatePageCache(x, eager)

\* calls of fetchPublishedPage('about') with a signal
NextAbort ==
  \/ Deliver
  \/ Render
  \/ \E items \in SUBSET Slugs : PublishedPagesOk(items)
  \/ \E force \in BOOLEAN, sig \in {"live", "aborted"} :
        fetchPublishedPage(JsValue("string", <<"about">>), force, sig)
  \/ \E c \in AllCalls, items \in SUBSET Slugs : GateRefreshOk(c, items)
  \/ \E c \in AllCalls : GateRefreshFail(c)
  \/ \E c \in AllCalls : GateRecheck(c)
  \/ \E c \in AllCalls, data \in Bundles : FetchOk(c, data)
  \/ \E c \in AllCalls, status \in PageErrors : FetchFail(c, status)
  \/ \E c \in AllCalls, status \in AbortStatuses : AbortFetch(c, status)

(***************************************************************************)
(* Retry loader: TutorialProvider.loadTutorials (src/src/AppRoutes.jsx,    *)
(* lines 263-328).  execute(attempt) is cut at the await of the fetcher    *)
(* (line 269) and at the await of the delay (lines 285-308).  The calls of *)
(* loadTutorials are issued one after the other.                           *)
(***************************************************************************)
\* line 283: attempt < 3
MaxAttempts == 3

\* error.status of the errors api.getTutorials rejects with: none, and the
\* statuses the transport produces (0 only while the signal is aborted)
FetcherErrors == {NoStatus, 0, 400, 404, 408, 500, 503}

\* ShouldRetry that retries every error with a status of 400 or more
ShouldRetry_clientErrors(n, status) ==
  n < MaxAttempts /\ (status = NoStatus \/ status = 0 \/ status >= 400)

\* line 283: attempt < 3 && (!err.status || err.status >= 500)
ShouldRetry(n, status) ==
  n < MaxAttempts /\ (status = NoStatus \/ status = 0 \/ status >= 500)

\* FinallyLoading that leaves the flag as it is
FinallyLoading_keeps(sig, flag) == flag

\* lines 324-326: the finally block of loadTutorials
FinallyLoading(sig, flag) == IF sig # "aborted" THEN FALSE ELSE flag

\* AbortedStage of a delay that goes on after the abort
AbortedStage_keepsWaiting(st) == st

\* where the call is after the abort event: abortHandler rejects the delay
\* (lines 295-298), the rejection is swallowed (306-308) and execute
\* returns (309-312); an attempt in flight stays in flight
AbortedStage(st) == IF st = "waiting" THEN "done" ELSE st

\* a tutorial: its id, its creation date as a number, its topics
Tutorial(id, created, topics) == [id |-> id, created_at |-> created, topics |-> topics]

\* useState([]), line 260
NoTutorials == <<>>

\* the list GET /tutorials returns
ServerTutorials == <<Tutorial(1, 1, <<JsValue("string", <<"a">>)>>)>>

\* state after the first render and the mount effect (lines 331-337):
\* loadTutorials has run up to the await of the first attempt
InitRetry ==
  /\ tutorials = NoTutorials
  /\ tutorialsLoading = TRUE
  /\ tutorialsError = <<>>
  /\ stage = "fetching"
  /\ attempt = 1
  /\ signal = "live"
  /\ loads = 1
  /\ delayTimer = FALSE
  /\ delayListener = FALSE
  /\ failures = <<>>

\* refreshTutorials = loadTutorials without a signal, lines 263-269
RefreshTutorials ==
  /\ stage = "done"
  /\ loads < MaxTutorialLoads
  /\ loads' = loads + 1
  /\ tutorialsLoading' = TRUE
  /\ tutorialsError' = <<>>
  /\ stage' = "fetching"
  /\ attempt' = 1
  /\ signal' = "none"
  /\ failures' = <<>>
  /\ UNCHANGED <<tutorials, delayTimer, delayListener>>
  /\ UNCHANGED notRetryVars

\* AttemptOk that stores the response without looking at the signal
AttemptOk_unchecked ==
  /\ stage = "fetching"
  /\ stage' = "done"
  /\ tutorials' = ServerTutorials /\ tutorialsError' = <<>>
  /\ tutorialsLoading' = FinallyLoading(signal, tutorialsLoading)
  /\ UNCHANGED <<attempt, signal, loads, delayTimer, delayListener, failures>>
  /\ UNCHANGED notRetryVars

\* the fetcher resolves, lines 269-278 and 321-327
AttemptOk ==
  /\ stage = "fetching"
  /\ stage' = "done"
  /\ IF signal # "aborted"
     THEN tutorials' = ServerTutorials /\ tutorialsError' = <<>>
     ELSE UNCHANGED <<tutorials, tutorialsError>>
  /\ tutorialsLoading' = FinallyLoading(signal, tutorialsLoading)
  /\ UNCHANGED <<attempt, signal, loads, delayTimer, delayListener, failures>>
  /\ UNCHANGED notRetryVars

\* the fetcher rejects, lines 279-285, 299-305 and 312-327
AttemptFail(status) ==
  /\ stage = "fetching"
  /\ status = 0 => signal = "aborted"
  /\ failures' = Append(failures, status)
  /\ IF signal = "aborted"
     THEN /\ stage' = "done"
          /\ UNCHANGED <<tutorials, tutorialsError, tutorialsLoading, delayTimer, delayListener>>
     ELSE IF ShouldRetry(attempt, status)
          THEN /\ stage' = "waiting"
               /\ delayTimer' = TRUE
               /\ delayListener' = (signal # "none")
               /\ UNCHANGED <<tutorials, tutorialsError, tutorialsLoading>>
          ELSE /\ stage' = "done"
               /\ tutorials' = NoTutorials
               /\ tutorialsError' = <<status>>
               /\ tutorialsLoading' = FinallyLoading(signal, tutorialsLoading)
               /\ UNCHANGED <<delayTimer, delayListener>>
  /\ UNCHANGED <<attempt, signal, loads>>
  /\ UNCHANGED notRetryVars

\* the timer of the delay fires: cleanup and resolve (lines 299-302), then
\* the check of the signal (309-312) and, when execute returns, the finally
\* block (323-327)
DelayElapses ==
  /\ delayTimer
  /\ delayTimer' = FALSE
  /\ delayListener' = FALSE
  /\ IF signal # "aborted"
     THEN /\ stage' = "fetching"
          /\ attempt' = attempt + 1
          /\ UNCHANGED tutorialsLoading
     ELSE /\ stage' = "done"
          /\ tutorialsLoading' = FinallyLoading(signal, tutorialsLoading)
          /\ UNCHANGED attempt
  /\ UNCHANGED <<tutorials, tutorialsError, signal, loads, failures>>
  /\ UNCHANGED notRetryVars

\* the effect cleanup aborts the signal (line 335); an attached
\* abortHandler runs cleanup (lines 287-297): it clears the timer and
\* removes itself; the finally block (323-327) sees the aborted signal
AbortLoad ==
  /\ signal = "live"
  /\ signal' = "aborted"
  /\ stage' = AbortedStage(stage)
  /\ IF delayListener /\ AbortedStage(stage) = "done"
     THEN delayTimer' = FALSE /\ delayListener' = FALSE
     ELSE UNCHANGED <<delayTimer, delayListener>>
  /\ tutorialsLoading' = IF AbortedStage(stage) = "done" /\ stage # "done"
                         THEN FinallyLoading("aborted", tutorialsLoading)
                         ELSE tutorialsLoading
  /\ UNCHANGED <<tutorials, tutorialsError, attempt, loads, failures>>
  /\ UNCHANGED notRetryVars

NextRetry ==
  \/ RefreshTutorials
  \/ AttemptOk
  \/ \E status \in FetcherErrors : AttemptFail(status)
  \/ DelayElapses
  \/ AbortLoad

(***************************************************************************)
(* Calls with arguments as the callers wrote them: addTutorial and         *)
(* updateTutorial (src/src/AppRoutes.jsx, lines 338-385), updateSection    *)
(* with any section key (lines 697-717), pages.fetch (line 788).           *)
(***************************************************************************)
notRetryOrEditVars == <<contentVars, pageVars, transportVars, navVars, argVars>>

\* values of tutorial.topics: not an array, or an array of values
Topics(isArray, items) == [isArray |-> isArray, items |-> items]

TopicsArgs ==
  { Topics(FALSE, <<>>),
    Topics(TRUE, <<>>),
    Topics(TRUE, <<JsValue("string", <<" ">>)>>),
    Topics(TRUE, <<JsValue("zero", <<>>), JsValue("string", <<>>)>>),
    Topics(TRUE, <<JsValue("string", <<" ">>), JsValue("string", <<"b">>)>>) }

\* KeepsTopic that keeps every string
KeepsTopic_anyString(topic) == topic.t = "string"

\* lines 340 and 366: the filter of the topics
KeepsTopic(topic) == topic.t = "string" /\ Trim(topic.s) # <<>>

\* lines 339-341: sanitizedTopics of addTutorial
sanitizedTopics(topics) == IF topics.isArray THEN SelectSeq(topics.items, KeepsTopic) ELSE <<>>

\* lines 342 and 368: the validation of addTutorial and of updateTutorial
addTutorialValid(topics) == sanitizedTopics(topics) # <<>>
updateTutorialValid(topics) == ~(topics.isArray /\ sanitizedTopics(topics) = <<>>)

\* ids of the tutorials callers update
TutorialIds == {1}

\* creation dates of the tutorials POST /tutorials returns
CreatedDates == {0, 2}

EditCall(op, id, topics) == [op |-> op, id |-> id, topics |-> topics]
NoEdit == [op |-> "none", code |-> "none", status |-> <<>>]

\* fetch, section and tutorial calls issued so far
IssuedCalls == calls + ContentCalls + edits

\* newList.sort by created_at, line 355: Array.prototype.sort is stable
InsertByCreated(sorted, t) ==
  LET before == SelectSeq(sorted, LAMBDA u : u.created_at <= t.created_at)
      after == SelectSeq(sorted, LAMBDA u : u.created_at > t.created_at)
  IN before \o <<t>> \o after

RECURSIVE sortByCreated(_)
sortByCreated(list) ==
  IF list = <<>> THEN <<>>
  ELSE InsertByCreated(sortByCreated(SubSeq(list, 1, Len(list) - 1)), list[Len(list)])

InitEdits ==
  /\ editCalls = EmptyBag
  /\ edits = 0
  /\ lastEdit = NoEdit

\* addTutorial(tutorial), lines 338-352, up to the await
addTutorial(topics) ==
  /\ IssuedCalls < MaxCalls
  /\ edits' = edits + 1
  /\ IF addTutorialValid(topics)
     THEN /\ editCalls' = editCalls (+) SetToBag({EditCall("addTutorial", 0, sanitizedTopics(topics))})
          /\ UNCHANGED lastEdit
     ELSE /\ lastEdit' = [op |-> "addTutorial", code |-> "validation", status |-> <<NoStatus>>]
          /\ UNCHANGED editCalls
  /\ UNCHANGED retryVars
  /\ UNCHANGED notRetryOrEditVars

\* updateTutorial(id, updatedTutorial), lines 364-378, up to the await
updateTutorial(id, topics) ==
  /\ IssuedCalls < MaxCalls
  /\ edits' = edits + 1
  /\ IF updateTutorialValid(topics)
     THEN /\ editCalls' = editCalls (+) SetToBag({EditCall("updateTutorial", id, sanitizedTopics(topics))})
          /\ UNCHANGED lastEdit
     ELSE /\ lastEdit' = [op |-> "updateTutorial", code |-> "validation", status |-> <<NoStatus>>]
          /\ UNCHANGED editCalls
  /\ UNCHANGED retryVars
  /\ UNCHANGED notRetryOrEditVars

\* api.createTutorial resolves, lines 352-358
CreateTutorialOk(c, created) ==
  /\ BagIn(c, editCalls)
  /\ c.op = "addTutorial"
  /\ editCalls' = editCalls (-) SetToBag({c})
  /\ tutorials' = sortByCreated(Append(tutorials, Tutorial(2, created, c.topics)))
  /\ lastEdit' = [op |-> c.op, code |-> "ok", status |-> <<>>]
  /\ UNCHANGED <<edits, tutorialsLoading, tutorialsError, stage, attempt, signal, loads,
                 delayTimer, delayListener, failures>>
  /\ UNCHANGED notRetryOrEditVars

\* api.updateTutorial resolves, lines 378-380, with the tutorial as the
\* server has it after the update: the topics of the payload when it had
\* topics (line 375)
UpdateTutorialOk(c) ==
  /\ BagIn(c, editCalls)
  /\ c.op = "updateTutorial"
  /\ editCalls' = editCalls (-) SetToBag({c})
  /\ tutorials' = [n \in DOMAIN tutorials |->
                     IF tutorials[n].id = c.id /\ c.topics # <<>>
                     THEN [tutorials[n] EXCEPT !.topics = c.topics]
                     ELSE tutorials[n]]
  /\ lastEdit' = [op |-> c.op, code |-> "ok", status |-> <<>>]
  /\ UNCHANGED <<edits, tutorialsLoading, tutorialsError, stage, attempt, signal, loads,
                 delayTimer, delayListener, failures>>
  /\ UNCHANGED notRetryOrEditVars

\* api.createTutorial or api.updateTutorial rejects, lines 359-362 and
\* 381-384: the error is logged and thrown again
EditFail(c, status) ==
  /\ BagIn(c, editCalls)
  /\ editCalls' = editCalls (-) SetToBag({c})
  /\ lastEdit' = [op |-> c.op, code |-> "error", status |-> <<status>>]
  /\ UNCHANGED edits
  /\ UNCHANGED retryVars
  /\ UNCHANGED notRetryOrEditVars

\* section arguments of updateSection: a key, the empty string, none
SectionArgs ==
  { JsValue("string", <<"header">>), JsValue("string", <<>>), JsValue("undefined", <<>>), Null }

\* updateSection(section, newContent), lines 697-703, up to the await: a
\* falsy section throws 'Section is required', an error without status
updateSection(x, newContent) ==
  IF Truthy(x)
  THEN IssuedCalls < MaxCalls /\ UpdateSection(x.s[1], newContent)
  ELSE /\ lastSave' = [NoSave EXCEPT !.thrown = <<NoStatus>>]
       /\ UNCHANGED <<content, loading, error, savingSections, loadCalls, saveCalls,
                      latestOverride, everOverride>>
       /\ UNCHANGED notContentVars

\* pages.fetch of the context value, line 788
pagesFetch(x, force) ==
  /\ IssuedCalls < MaxCalls
  /\ fetchPublishedPage(x, force, "none")

EditCalls == { EditCall(op, id, topics) : op \in {"addTutorial", "updateTutorial"}, id \in {0} \cup TutorialIds,
               topics \in {sanitizedTopics(t) : t \in TopicsArgs} }

\* slug arguments of pages.fetch: a slug, a blank string, the empty
\* string, a number and none
FetchArgs ==
  { JsValue("string", <<"About", " ">>), JsValue("string", <<" ">>), JsValue("string", <<>>),
    JsValue("zero", <<>>), NoSlug }

\* the bundle and the section value of the responses
NewBundle == CHOOSE data \in Bundles : TRUE
NewValue == CHOOSE v \in Values : v.title = "b"

\* pages.fetch with these arguments, forced when the slug is one of a page
FetchInputs == { a \in FetchArgs \X BOOLEAN : a[1].t = "string" /\ Trim(a[1].s) # <<>> => a[2] }

\* calls of the four validating operations, the first tutorials load and
\* the responses of the calls that passed
NextValidation ==
  \/ Deliver
  \/ Render
  \/ AttemptOk
  \/ \E a \in FetchInputs : pagesFetch(a[1], a[2])
  \/ \E c \in AllCalls : FetchOk(c, NewBundle)
  \/ \E x \in SectionArgs : updateSection(x, NewValue)
  \/ \E i \in SaveIds : UpdateSectionOk(i, Nullish)
  \/ \E topics \in TopicsArgs : addTutorial(topics)
  \/ \E id \in TutorialIds, topics \in TopicsArgs : updateTutorial(id, topics)
  \/ \E c \in EditCalls, created \in CreatedDates : CreateTutorialOk(c, created)
  \/ \E c \in EditCalls : UpdateTutorialOk(c)
  \/ \E c \in EditCalls : EditFail(c, NoStatus)

Init == InitContent /\ InitPages /\ InitTransport /\ InitRetry /\ InitNav /\ InitArgs /\ InitEdits

SpecPages == Init /\ [][NextPages]_vars

SpecContent == Init /\ [][NextContent]_vars

SpecTransport == Init /\ [][NextTransport]_vars

SpecHeaders == Init /\ [][NextHeaders]_vars

SpecRetry == Init /\ [][NextRetry]_vars

SpecNavigation == Init /\ [][NextNavigation]_vars

SpecSlugs == Init /\ [][NextSlugs]_vars

SpecAbort == Init /\ [][NextAbort]_vars
SpecValidation == Init /\ [][NextValidation]_vars

\* the retry loader when every attempt settles (by response, error or the
\* 15 s timeout of the transport) and every scheduled timer fires
SpecRetryLive ==
  /\ Init
  /\ [][NextRetry]_vars
  /\ WF_vars(AttemptOk \/ \E status \in FetcherErrors : AttemptFail(status))
  /\ WF_vars(DelayElapses)

(***************************************************************************)
(* Properties of the published-page cache, checked under SpecPages.        *)
(***************************************************************************)
\* the step adds the call c to the calls in flight, or moves a call to c
Entered(c) == CopiesIn(c, fetchCalls') > CopiesIn(c, fetchCalls)
\* the step takes the call c from the calls in flight, or moves it on
Left(c) == CopiesIn(c, fetchCalls') < CopiesIn(c, fetchCalls)
\* the page fetch of the call c rejected in this step
PageFetchFailed(c) == c.pc = "net" /\ Left(c) /\ settled'.via # "fresh"

\* C1: while a non-forced fetch(k) has resolved from the endpoint and k has
\* not been invalidated since, a non-forced fetch(k) takes the cache fast
\* path (it resolves with the cached bundle without a page fetch), whether
\* or not k is in the Published Slug Set.
C1_CachedFetchIsHit ==
  \A k \in Slugs : history[k] = "fetched" => CacheFastPath(FALSE, pageCacheRef, k)

\* C2: a fetch(k) issued after invalidate(k), with no fetch having written
\* the entry of k in between, is never resolved from the cache.
C2_FetchAfterInvalidateRefetches ==
  [][(settled = NoFetch /\ settled'.via = "hit") => history[settled'.slug] # "invalidated"]_vars

\* C3: a non-forced fetch(k) of an uncached k outside the Published Slug
\* Set refreshes the set once, and when the set still excludes k after the
\* refresh the call rejects with status 404; no non-forced call reaches
\* the page-fetch endpoint while the set excludes its slug.
C3_GatingRejectsUnpublished ==
  [][\A c \in AllCalls :
       /\ (c.pc = "net" /\ ~c.force /\ Entered(c)) => c.slug \in publishedPageSlugsRef
       /\ (c.pc = "refresh" /\ Entered(c)) =>
             /\ calls' = calls + 1
             /\ ~c.force
             /\ pageCacheRef[c.slug] = Absent
             /\ c.slug \notin publishedPageSlugsRef
       /\ (c.pc \in {"wait", "failed"} /\ Entered(c)) => Left([c EXCEPT !.pc = "refresh"])
       /\ (c.pc \in {"wait", "failed"} /\ Left(c) /\ c.slug \notin publishedPageSlugsRef) =>
             /\ settled' = Outcome(c.slug, FALSE, "gate404", Absent, <<404>>, 0, 1)
             /\ \A d \in AllCalls : ~Entered(d)]_vars

\* a call has been rejected by the gate after its refresh, without a page
\* fetch
C3_Witness ==
  /\ settled.via = "gate404"
  /\ settled.status = <<404>>
  /\ settled.net = 0
  /\ settled.refreshes = 1
  /\ settled.slug \notin publishedPageSlugsRef

\* C4 as stated: every fetch(k) whose page fetch fails while an entry for
\* k exists and k is in the Published Slug Set resolves with the entry.
C4_Original ==
  [][\A c \in AllCalls :
       (PageFetchFailed(c) /\ pageCacheRef[c.slug] # Absent /\ c.slug \in publishedPageSlugsRef) =>
          (settled'.via = "stale" /\ settled'.value = pageCacheRef[c.slug])]_vars

\* C4 as amended: every non-forced fetch(k) whose page fetch fails while an
\* entry for k exists and k is in the Published Slug Set resolves with the
\* entry instead of rejecting.
C4_StaleServeUnlessForced ==
  [][\A c \in AllCalls :
       (PageFetchFailed(c) /\ ~c.force /\ pageCacheRef[c.slug] # Absent
          /\ c.slug \in publishedPageSlugsRef) =>
          (settled'.via = "stale" /\ settled'.value = pageCacheRef[c.slug] /\ settled'.status = <<>>)]_vars

\* a non-forced call of a published slug has resolved with the cached
\* entry after its page fetch failed
C4_Witness ==
  /\ settled.via = "stale"
  /\ ~settled.force
  /\ settled.net = 1
  /\ settled.slug \in publishedPageSlugsRef
  /\ settled.value = pageCacheRef[settled.slug]
  /\ settled.value \in Bundles

(***************************************************************************)
(* Properties of the content store, checked under SpecContent.             *)
(***************************************************************************)
SaveFails(i) == saveCalls[i].st = "pending" /\ saveCalls'[i].st = "failed"
SaveSucceeds(i) == saveCalls[i].st = "pending" /\ saveCalls'[i].st = "ok"
InFlightSaves(s) == {i \in SaveIds : saveCalls[i].st = "pending" /\ saveCalls[i].section = s}
SettledSaves(s) == {i \in SaveIds : saveCalls[i].st \in {"ok", "failed"} /\ saveCalls[i].section = s}
NoResponseApplied ==
  /\ \A i \in SaveIds : saveCalls[i].st # "ok"
  /\ \A i \in LoadIds : loadCalls[i] # "ok"

\* C5: the step in which an updateSection(s, v) call fails rethrows the
\* error of the persist request and changes no section: getSection(s) and
\* every other section are as they were before the step.
C5_FailedSaveWritesNothing ==
  [][\A i \in SaveIds : SaveFails(i) =>
        /\ lastSave'.id = i
        /\ lastSave'.thrown # <<>>
        /\ content' = content]_vars

\* a save of a section that holds an override has failed and the override
\* is still there
C5_Witness ==
  /\ lastSave.id \in SaveIds
  /\ saveCalls[lastSave.id].st = "failed"
  /\ lastSave.thrown # <<>>
  /\ getSection(lastSave.section) \in Values
  /\ getSection(lastSave.section) # lastSave.newContent

\* C6: the step in which updateSection(s, v) succeeds with a response that
\* echoes a content value sets getSection(s) to the echoed value, also
\* when it differs from v, and leaves every other section unchanged.
C6_SuccessStoresServerEcho ==
  [][\A i \in SaveIds : (SaveSucceeds(i) /\ lastSave'.echoed # Nullish) =>
        /\ lastSave'.id = i
        /\ content'[saveCalls[i].section] = lastSave'.echoed
        /\ \A t \in CONTENT_SECTIONS \ {saveCalls[i].section} : content'[t] = content[t]]_vars

\* a save has succeeded with an echo different from the caller's value and
\* the store holds the echo
C6_Witness ==
  /\ lastSave.id \in SaveIds
  /\ saveCalls[lastSave.id].st = "ok"
  /\ lastSave.echoed # Nullish
  /\ lastSave.echoed # lastSave.newContent
  /\ getSection(lastSave.section) = lastSave.echoed

\* C7 as stated: getSection(s) is the server override for s if one was
\* ever loaded or saved for s, and the default otherwise.
C7_Original ==
  \A s \in CONTENT_SECTIONS :
    getSection(s) = IF everOverride[s] # Nullish THEN everOverride[s] ELSE getDefaultSection(s)

\* C7 as amended: getSection(s) is the override for s carried by the most
\* recently applied load or save response, as a whole and not merged with
\* the default, and the default when that response carried none (a load
\* response replaces every section, so it resets the sections it omits).
C7_LatestOverrideOrDefault ==
  \A s \in CONTENT_SECTIONS :
    getSection(s) = IF latestOverride[s] # Nullish THEN latestOverride[s] ELSE getDefaultSection(s)

\* one section holds an override that lacks a field of the default, and
\* another one was overridden once and is back at its default
C7_Witness ==
  \E s, t \in CONTENT_SECTIONS :
    /\ latestOverride[s] # Nullish
    /\ latestOverride[s].icon = "-"
    /\ getSection(s) = latestOverride[s]
    /\ everOverride[t] # Nullish
    /\ latestOverride[t] = Nullish
    /\ getSection(t) = getDefaultSection(t)

\* C8 as stated: after the initial content fetch has failed the store
\* holds the compiled defaults for every section.
C8_Original ==
  loadCalls[1] = "failed" => \A s \in CONTENT_SECTIONS : getSection(s) = getDefaultSection(s)

\* C8 as amended: the step in which the initial content fetch fails
\* changes no section, records an error and clears the loading flag; the
\* store then holds the compiled defaults for every section unless an
\* updateSection or another content load has succeeded before.
C8_FailedInitialLoadKeepsStore ==
  [][(loadCalls[1] = "pending" /\ loadCalls'[1] = "failed") =>
        /\ content' = content
        /\ (NoResponseApplied => \A s \in CONTENT_SECTIONS : content'[s] = DEFAULT_CONTENT[s])
        /\ error' # <<>>
        /\ loading' = FALSE]_vars

\* the initial load has failed with everything at the defaults
C8_Witness ==
  /\ loadCalls[1] = "failed"
  /\ NoResponseApplied
  /\ error # <<>>
  /\ ~loading
  /\ content = DEFAULT_CONTENT

\* C9: savingSections[s] is set whenever an updateSection(s, .) call is in
\* flight.
C9_FlagWhileInFlight ==
  \A s \in CONTENT_SECTIONS : InFlightSaves(s) # {} => s \in savingSections

\* C10: once every updateSection(s, .) call has settled, by success or by
\* failure, s is absent from savingSections.
C10_MarkerClearedWhenSettled ==
  \A s \in CONTENT_SECTIONS : InFlightSaves(s) = {} => s \notin savingSections

\* two saves of one section have settled, one by success and one by
\* failure, and the marker is gone
C10_Witness ==
  \E i, j \in SaveIds :
    /\ saveCalls[i].st = "ok"
    /\ saveCalls[j].st = "failed"
    /\ saveCalls[i].section = saveCalls[j].section
    /\ saveCalls[i].section \notin savingSections

(***************************************************************************)
(* Properties of the transport, checked under SpecTransport and            *)
(* SpecHeaders.                                                            *)
(***************************************************************************)
\* a request() call settles in this step
RequestSettles == done = NoDone /\ done' # NoDone

\* a request is built and handed to fetch in this step
RequestSent == nreq' = nreq + 1 /\ done' = NoDone

\* x is a string with at least one character that is not whitespace
IsNonBlankString(x) == x.t = "string" /\ \E i \in DOMAIN x.s : x.s[i] # " "

C12_TokenAbsentOrNonBlank ==
  [][/\ token = Null \/ IsNonBlankString(token)
     /\ token' = Null \/ IsNonBlankString(token')
     /\ \A x \in TokenInputs :
          SetToken(x) => token' = IF IsNonBlankString(x) THEN x ELSE Null]_vars

\* the token is a string that starts with whitespace: it is stored as given
C12_Witness ==
  /\ token.t = "string"
  /\ Len(token.s) > 1
  /\ token.s[1] = " "

\* C13: in the step in which a logout call settles the token is absent,
\* whether its request resolved, was rejected by the server, failed on the
\* network or timed out.
C13_LogoutClearsToken ==
  [][(RequestSettles /\ done'.kind = "logout") => token' = Null]_vars

\* a logout sent with an Authorization header has timed out and the token
\* is gone
C13_Witness ==
  /\ done.kind = "logout"
  /\ done.outcome = "rejected"
  /\ done.cause = "timeout"
  /\ sent.auth
  /\ token = Null

\* C14: a call rejected because its request was aborted has status 0
\* exactly when the caller's signal aborted it and status 408 exactly when
\* the timeout did.
C14_AbortStatusTellsCause ==
  done.cause \in {"caller", "timeout"} =>
    /\ done.status = 0 <=> done.cause = "caller"
    /\ done.status = 408 <=> done.cause = "timeout"

\* C15: no request is pending while the caller's signal is aborted.
C15_AbortedSignalAbortsRequest ==
  \A c \in Pending : c.sig # "aborted"

\* C16: the calls that have settled hold no timer and no listener.
C16_NoTimerOrListenerLeft ==
  leakedTimers = 0 /\ leakedListeners = 0

\* C17: the error of every rejected call carries a numeric status.
C17_RejectionHasStatus ==
  done.outcome = "rejected" => done.status # NoStatus

\* C18: a call that has received a complete response with a non-2xx status
\* rejects with that status, whatever the body; one that has received a 2xx
\* response with an empty body resolves to null.
C18_StatusDecidesOutcome ==
  (done.outcome # "none" /\ done.full) =>
    /\ ~Ok(done.response) => (done.outcome = "rejected" /\ done.status = done.response)
    /\ (Ok(done.response) /\ isEmptyBody(done.response, done.body)) =>
         (done.outcome = "resolved" /\ done.value = "null")

\* a response with status 401 and content-length 0 has rejected the call
\* with status 401
C18_Witness ==
  /\ done.full
  /\ done.body = "empty"
  /\ done.response = 401
  /\ done.outcome = "rejected"
  /\ done.status = 401

\* the value of the ltcms_csrf cookie in document.cookie, NoHeader when
\* there is no such cookie or its value is empty
CookieValue(jar) ==
  LET named == {i \in DOMAIN jar : jar[i].name = CSRF_COOKIE_NAME}
      first == CHOOSE i \in named : \A j \in named : i <= j
  IN IF named = {} THEN NoHeader
     ELSE IF jar[first].pieces = <<"">> THEN NoHeader ELSE jar[first].pieces

\* C19: a request with a method other than GET, HEAD and OPTIONS carries
\* the x-csrf-token header the caller supplied, else the value of the
\* anti-forgery cookie; a GET, HEAD or OPTIONS request carries the header
\* only if the caller supplied it.
C19_CsrfHeaderFromCookie ==
  sent # NoSent =>
    sent.csrf = IF sent.callerCsrf # NoHeader THEN sent.callerCsrf
                ELSE IF sent.method \in {"GET", "HEAD", "OPTIONS"} THEN NoHeader
                ELSE CookieValue(sent.jar)

(***************************************************************************)
(* Properties of the retry loader, checked under SpecRetry.                *)
(***************************************************************************)
\* the status of the attempt that failed last
LastFailure == failures[Len(failures)]

\* an attempt fails in this step
AttemptFails == stage = "fetching" /\ failures' # failures

\* C20: another attempt starts only when the signal is not aborted, fewer
\* than 3 attempts were made and the last error has no status or one of
\* 500 or more; an attempt that fails with a 4xx status ends the load; a
\* load whose signal is not aborted goes on after an error without status
\* or with a 5xx status until 3 attempts were made, so that one failing
\* with 500 twice and succeeding then is loaded after exactly 3 attempts
\* and one failing with 400 has made exactly 1.
C20_RetryOnlyTransient ==
  [][/\ attempt' = attempt + 1 =>
          /\ signal # "aborted"
          /\ attempt < 3
          /\ LastFailure = NoStatus \/ LastFailure >= 500
     /\ (AttemptFails /\ LastFailure' \in 400..499) => stage' = "done"
     /\ (AttemptFails /\ signal # "aborted" /\ attempt < 3
           /\ (LastFailure' = NoStatus \/ LastFailure' >= 500)) => stage' = "waiting"
     /\ attempt' \in 1..3
     /\ (stage' = "done" /\ tutorials' = ServerTutorials /\ failures' = <<500, 500>>) => attempt' = 3
     /\ failures' = <<400>> => (stage' = "done" /\ attempt' = 1)]_vars

\* a load has failed twice with status 500 and is loaded after its third
\* attempt
C20_Witness ==
  /\ stage = "done"
  /\ failures = <<500, 500>>
  /\ attempt = 3
  /\ tutorials = ServerTutorials
  /\ ~tutorialsLoading

\* an attempt starts in this step
AttemptStarts == stage # "fetching" /\ stage' = "fetching"

\* C21: a load makes at most 3 attempts, whatever the endpoint answers; a
\* load that has settled while its signal is not aborted has set the loading
\* flag to false; when every attempt settles and every timer fires, a load
\* that is running settles.
C21_BoundedAndSettles ==
  /\ [](attempt \in 1..3 /\ Len(failures) <= 3)
  /\ []((stage = "done" /\ signal # "aborted") => ~tutorialsLoading)
  /\ [](stage # "done" => <>(stage = "done"))

\* a load has settled after 3 failed attempts, not cancelled
C21_Witness ==
  /\ stage = "done"
  /\ signal # "aborted"
  /\ Len(failures) = 3
  /\ attempt = 3
  /\ tutorialsError # <<>>
  /\ ~tutorialsLoading

\* C22: no attempt starts while the signal is aborted; an attempt that
\* fails after the abort ends the load; an abort during the delay ends the
\* load in the same step, with the timer cleared and the listener removed,
\* and the attempt number stays; no timer or listener of the delay is left
\* while the signal is aborted.
C22_NoAttemptAfterAbort ==
  [][/\ signal' = "aborted" =>
          /\ ~AttemptStarts
          /\ attempt' = attempt
          /\ stage' # "waiting"
          /\ ~delayTimer'
          /\ ~delayListener'
     /\ (signal = "aborted" /\ AttemptFails) => stage' = "done"
     /\ (signal = "live" /\ signal' = "aborted" /\ stage = "waiting") => stage' = "done"]_vars

\* the signal was aborted after the first attempt had failed with status
\* 500: the load is over and no second attempt was made
C22_Witness ==
  /\ signal = "aborted"
  /\ stage = "done"
  /\ failures = <<500>>
  /\ attempt = 1
  /\ ~delayTimer
  /\ ~delayListener

\* C23: a load that fails while the list is loaded leaves the list loaded.
C23_FailedReloadKeepsList ==
  [][(AttemptFails /\ tutorials = ServerTutorials) => tutorials' = ServerTutorials]_vars

(***************************************************************************)
(* Properties of the navigation resolver, checked under SpecNavigation.    *)
(***************************************************************************)
\* the navigation the provider hands out in the current state
Navigation == navigationData(content, dynamicNavItems, publishedPageSlugs)

\* the trimmed, lowercased slug of the server item at position i, "" when
\* the item is null or its slug is no string
ItemSlug(i) ==
  IF dynamicNavItems[i].isNull \/ dynamicNavItems[i].slug.t # "string" THEN ""
  ELSE NormalizeSlug(dynamicNavItems[i].slug.s)

\* the server item at position i is to be shown
Shown(i) ==
  /\ ItemSlug(i) # ""
  /\ publishedPageSlugs # {} => ItemSlug(i) \in publishedPageSlugs

\* the order field of the server item at position i, 0 when it has none
ExplicitOrder(i) ==
  IF dynamicNavItems[i].order_index = <<>> THEN 0 ELSE dynamicNavItems[i].order_index[1]

\* C24: the dynamic list has, for every slug, as many items as the server
\* sent items with that trimmed, lowercased slug that are to be shown: when
\* the Published Slug Set is not empty those whose slug is in the set, and
\* when it is empty all those with a non-blank string slug; it has no
\* other item.
C24_FilterByPublished ==
  /\ \A k \in Slugs \cup {""} :
       Cardinality({j \in DOMAIN Navigation.dynamic : Navigation.dynamic[j].slug = k})
         = Cardinality({i \in DOMAIN dynamicNavItems : Shown(i) /\ ItemSlug(i) = k})
  /\ Len(Navigation.dynamic) = Cardinality({i \in DOMAIN dynamicNavItems : Shown(i)})

\* the server sent an item for about and one for blog, only about is
\* published, and the dynamic list is one item, for about
C24_Witness ==
  /\ publishedPageSlugs = {"about"}
  /\ \E i, j \in DOMAIN dynamicNavItems : ItemSlug(i) = "about" /\ ItemSlug(j) = "blog"
  /\ Len(Navigation.dynamic) = 1
  /\ Navigation.dynamic[1].slug = "about"

\* C25 as stated: every item of the dynamic list has a slug of the
\* Published Slug Set.
C25_Original ==
  \A j \in DOMAIN Navigation.dynamic : Navigation.dynamic[j].slug \in publishedPageSlugs

\* C25: while the Published Slug Set is not empty, every item of the
\* dynamic list has a slug of the set; while it is empty, every item has a
\* non-blank slug.
C25_PublishedOnlyWhenKnown ==
  \A j \in DOMAIN Navigation.dynamic :
    IF publishedPageSlugs # {}
    THEN Navigation.dynamic[j].slug \in publishedPageSlugs
    ELSE Navigation.dynamic[j].slug # ""

\* only blog is published, the server sent an item for about, and the
\* dynamic list is not empty
C25_Witness ==
  /\ publishedPageSlugs = {"blog"}
  /\ \E i \in DOMAIN dynamicNavItems : ItemSlug(i) = "about"
  /\ Navigation.dynamic # <<>>

\* C26: the items are the static items, in the order of
\* content.header.navItems, followed by the dynamic items; the dynamic
\* items are the shown server items, each once, in ascending order of
\* their order field with 0 for a missing one, those of equal order in the
\* order the server sent them; each has type route and the path /pages/
\* followed by its trimmed, lowercased slug.
C26_StaticThenSortedDynamic ==
  /\ Navigation.items = Navigation.static \o Navigation.dynamic
  /\ Len(Navigation.static) = Len(staticNavItems(content))
  /\ \A i \in DOMAIN Navigation.static :
       /\ Navigation.static[i].path = staticNavItems(content)[i].path
       /\ Navigation.static[i].slug = staticNavItems(content)[i].slug
  /\ \E p \in [DOMAIN Navigation.dynamic -> DOMAIN dynamicNavItems] :
       /\ \A j \in DOMAIN Navigation.dynamic :
            /\ Shown(p[j])
            /\ Navigation.dynamic[j].label = dynamicNavItems[p[j]].slug.s
            /\ Navigation.dynamic[j].type = "route"
            /\ Navigation.dynamic[j].path = <<"/pages/", ItemSlug(p[j])>>
       /\ \A i \in DOMAIN dynamicNavItems : Shown(i) => \E j \in DOMAIN Navigation.dynamic : p[j] = i
       /\ \A i, j \in DOMAIN Navigation.dynamic :
            i < j => \/ ExplicitOrder(p[i]) < ExplicitOrder(p[j])
                     \/ ExplicitOrder(p[i]) = ExplicitOrder(p[j]) /\ p[i] < p[j]

\* the server sent an item with order 1 before an item without order: the
\* dynamic list has the second before the first, behind two static items
C26_Witness ==
  /\ Len(dynamicNavItems) >= 2
  /\ dynamicNavItems[1].order_index = <<1>>
  /\ dynamicNavItems[2].order_index = <<>>
  /\ Len(Navigation.dynamic) >= 2
  /\ Navigation.dynamic[1].label = dynamicNavItems[2].slug.s
  /\ Navigation.dynamic[1].label # dynamicNavItems[1].slug.s
  /\ Len(Navigation.static) = 2
  /\ Navigation.items[3] = Navigation.dynamic[1]

(***************************************************************************)
(* Properties of the pages interface called with slugs as written,         *)
(* checked under SpecSlugs.                                                *)
(***************************************************************************)
\* spellings of the slug k: as it is, capitalized, and capitalized with a
\* trailing blank
SpellingsOf(k) ==
  IF k = "about"
  THEN { JsValue("string", <<"about">>), JsValue("string", <<"About">>),
         JsValue("string", <<"About", " ">>) }
  ELSE { JsValue("string", <<k>>) }

\* C27: for every spelling x of a slug k, a non-forced fetch(x) resolves
\* with the entry of k when there is one and otherwise goes on as a call
\* for k; a page fetch that resolves writes the entry of the slug of its
\* call and no other; invalidate(x) removes the entry of k and no other
\* from the cache state, at once or by a queued update, and does nothing
\* when the cache state has no entry of k.
C27_KeyedByNormalizedSlug ==
  [][/\ \A k \in Slugs : \A x \in SpellingsOf(k) :
          /\ fetchPublishedPage(x, FALSE, "none") =>
                IF pageCacheRef[k] # Absent
                THEN /\ settled' = Outcome(k, FALSE, "hit", pageCacheRef[k], <<>>, 0, 0)
                     /\ fetchCalls' = fetchCalls
                ELSE \E pc \in {"refresh", "net"} :
                        fetchCalls' = AddCall(fetchCalls, FetchCall(k, FALSE, pc))
          /\ (\E eager \in BOOLEAN : invalidatePageCache(x, eager)) =>
                \/ pageCacheQueue' = Append(pageCacheQueue, UpdaterUpdate(k))
                \/ pageCacheQueue' = Append(pageCacheQueue, SetUpdate([pageCache EXCEPT ![k] = Absent]))
                \/ pageCache[k] = Absent /\ pageCacheQueue' = pageCacheQueue /\ pageCacheRef' = pageCacheRef
     /\ \A c \in AllCalls :
          (c.pc = "net" /\ Left(c) /\ settled'.via = "fresh") =>
             pageCacheRef' = [pageCacheRef EXCEPT ![c.slug] = settled'.value]]_vars

\* fetch('about') was called and then fetch('About ') with a trailing
\* blank: the second call is a cache hit on the entry of about
C27_Witness ==
  /\ lastSlug = <<JsValue("string", <<"about">>), JsValue("string", <<"About", " ">>)>>
  /\ calls = 2
  /\ settled.via = "hit"
  /\ settled.slug = "about"
  /\ settled.value = pageCacheRef["about"]
  /\ settled.value # Absent

(***************************************************************************)
(* Overlapping saves of the content store, checked under SpecContent.      *)
(***************************************************************************)
\* the call i settles in this step as the last of the calls for its
\* section, after a call that was issued later for the same section has
\* settled: the two calls overlapped and settle against the issue order
SettlesLastOutOfOrder(i) ==
  /\ SaveSucceeds(i) \/ SaveFails(i)
  /\ InFlightSaves(saveCalls[i].section) = {i}
  /\ \E j \in SaveIds :
       j > i /\ saveCalls[j].st \in {"ok", "failed"} /\ saveCalls[j].section = saveCalls[i].section

\* C28 as stated: when the call that settles last of overlapping calls for
\* a section settles, the section holds the value of that call (the
\* content of its response, else the value it was called with).
C28_Original ==
  [][\A i \in SaveIds : SettlesLastOutOfOrder(i) =>
        content'[saveCalls[i].section] = Coalesce(lastSave'.echoed, lastSave'.newContent)]_vars

\* C28 as amended: when the call that settles last of overlapping calls for
\* a section succeeds, the section holds the value of that call although a
\* call issued later has settled before; when it fails, the section keeps
\* the value it had; no other section changes.
C28_LastSuccessfulSettleWins ==
  [][\A i \in SaveIds : SettlesLastOutOfOrder(i) =>
        /\ lastSave'.id = i
        /\ SaveSucceeds(i) =>
              content'[saveCalls[i].section] = Coalesce(lastSave'.echoed, lastSave'.newContent)
        /\ SaveFails(i) => content'[saveCalls[i].section] = content[saveCalls[i].section]
        /\ \A t \in CONTENT_SECTIONS \ {saveCalls[i].section} : content'[t] = content[t]]_vars

\* the call issued first has succeeded, without content in its response,
\* after the call issued second for the same section had succeeded, and
\* the section holds the value the first call was called with
C28_Witness ==
  /\ saveCalls[1].st = "ok"
  /\ saveCalls[2].st = "ok"
  /\ saveCalls[1].section = saveCalls[2].section
  /\ lastSave.id = 1
  /\ lastSave.echoed = Nullish
  /\ getSection(lastSave.section) = lastSave.newContent
  /\ latestOverride[lastSave.section] = lastSave.newContent
  /\ everOverride[lastSave.section] = lastSave.newContent

(***************************************************************************)
(* Cancellation of fetchPublishedPage, checked under SpecAbort.            *)
(***************************************************************************)
\* C29: a step of a fetchPublishedPage call whose signal is aborted changes
\* neither the page cache nor the Published Slug Set.
C29_NoMutationAfterAbort ==
  [][\A c \in AllCalls : (c.sig = "aborted" /\ Left(c)) =>
        /\ pageCacheRef' = pageCacheRef
        /\ pageCacheQueue' = pageCacheQueue
        /\ publishedPageSlugs' = publishedPageSlugs]_vars

(***************************************************************************)
(* Overlapping page fetches, checked under SpecPages.                      *)
(***************************************************************************)
\* C30: when no fetchPublishedPage call is in flight and every update is
\* rendered, the cache fetchPublishedPage reads (pageCacheRef) holds for
\* every slug what the cache state holds, which is what the last write
\* has set.
C30_LastWriteIsRead ==
  (fetchCalls = EmptyBag /\ ~dirty /\ pageCacheQueue = <<>>) =>
     \A k \in Slugs : pageCacheRef[k] = pageCache[k]

(***************************************************************************)
(* Further properties of the published-page cache, checked under           *)
(* SpecPages.                                                              *)
(***************************************************************************)
\* a fetchPublishedPage call rejects in this step
FetchRejects == settled = NoFetch /\ settled'.status # <<>>

\* C31: the step in which a fetch call rejects, by the gate, by a failed
\* page fetch or by its cancellation, changes no entry of the cache the
\* calls read, of the cache state or of its queued updates; the steps a
\* call takes before it settles change none either: only a page fetch
\* that resolves writes.
C31_RejectionLeavesCache ==
  [][/\ FetchRejects =>
          /\ pageCacheRef' = pageCacheRef
          /\ pageCache' = pageCache
          /\ pageCacheQueue' = pageCacheQueue
     /\ \A c \in AllCalls :
          ((Entered(c) \/ Left(c)) /\ settled'.via # "fresh") =>
             /\ pageCacheRef' = pageCacheRef
             /\ pageCache' = pageCache
             /\ pageCacheQueue' = pageCacheQueue]_vars

\* a forced fetch has rejected after its page fetch failed, and the entry
\* of its slug is still there
C31_Witness ==
  /\ settled.via = "error"
  /\ settled.status # <<>>
  /\ settled.net = 1
  /\ pageCacheRef[settled.slug] \in Bundles

\* C32: a step of invalidate(k) leaves the cache that fetchPublishedPage
\* reads without the entry of k and with every other entry as it was; a
\* step of invalidate() leaves it empty.
C32_InvalidateRemovesExactly ==
  [][/\ \A k \in Slugs : (\E eager \in BOOLEAN : InvalidateSlug(k, eager)) =>
          pageCacheRef' = [pageCacheRef EXCEPT ![k] = Absent]
     /\ InvalidateAll => pageCacheRef' = EmptyCache]_vars

\* C33: when the page fetch of a call fails while the cache has no entry
\* of its slug, the call rejects: with status 404 when the slug is not in
\* the Published Slug Set at that time, and else with the error of the
\* page fetch, whose status is not 404.
C33_RecheckBeforeError ==
  [][\A c \in AllCalls :
       (PageFetchFailed(c) /\ pageCacheRef[c.slug] = Absent) =>
          /\ settled'.value = Absent
          /\ settled'.net = 1
          /\ IF c.slug \notin publishedPageSlugsRef
             THEN settled'.via = "fail404" /\ settled'.status = <<404>>
             ELSE /\ settled'.via = "error"
                  /\ \E status \in PageErrors : settled'.status = <<status>>]_vars

\* a non-forced call whose slug was published when it started has
\* rejected with status 404 after its page fetch failed
C33_Witness ==
  /\ settled.via = "fail404"
  /\ ~settled.force
  /\ settled.refreshes = 0
  /\ settled.status = <<404>>
  /\ pageCacheRef[settled.slug] = Absent
  /\ settled.slug \notin publishedPageSlugsRef

\* C34: a forced fetch(k) goes to the page-fetch endpoint in the step it is
\* called, whatever the cache and the Published Slug Set hold; no forced
\* call is ever at the refresh or behind the gate; a forced call settles
\* after exactly one page fetch and no refresh: when the fetch resolves it
\* writes the entry of k, and when it fails the call rejects, also while
\* an entry of k exists.
C34_ForcedAlwaysFetches ==
  [][/\ \A k \in Slugs : FetchStart(k, TRUE) =>
          /\ Entered(FetchCall(k, TRUE, "net"))
          /\ settled' = NoFetch
          /\ slugLoads' = slugLoads
     /\ \A c \in AllCalls : (c.force /\ c.pc \in {"refresh", "wait", "failed"}) => CopiesIn(c, fetchCalls') = 0
     /\ \A c \in AllCalls : (c.force /\ c.pc = "net" /\ Left(c)) =>
          /\ settled'.net = 1
          /\ settled'.refreshes = 0
          /\ IF settled'.via = "fresh"
             THEN /\ settled'.value \in Bundles
                  /\ pageCacheRef' = [pageCacheRef EXCEPT ![c.slug] = settled'.value]
                  /\ pageCacheQueue' = Append(pageCacheQueue, SetUpdate(pageCacheRef'))
             ELSE settled'.status # <<>> /\ settled'.value = Absent]_vars

\* a forced fetch of a slug outside the Published Slug Set has resolved
\* from the endpoint over an entry that holds its bundle now
C34_Witness ==
  /\ settled.force
  /\ settled.via = "fresh"
  /\ settled.slug \notin publishedPageSlugsRef
  /\ settled.net = 1
  /\ settled.refreshes = 0
  /\ pageCacheRef[settled.slug] = settled.value

\* C39: when no fetch is in flight and every queued update is applied,
\* the cache fetchPublishedPage reads and the cache state have entries
\* for the same slugs.
C39_CopiesAgree ==
  (fetchCalls = EmptyBag /\ ~dirty /\ pageCacheQueue = <<>>) =>
     {k \in Slugs : pageCacheRef[k] # Absent} = {k \in Slugs : pageCache[k] # Absent}

SaveIssued(i) == saveCalls[i].st = "idle" /\ saveCalls'[i].st = "pending"
LoadCompletes(i) == loadCalls[i] = "pending" /\ loadCalls'[i] = "ok"

\* C35: the step that issues updateSection(s, v) changes no section, and
\* from then on getSection(s) changes only in a step in which a save of s
\* succeeds or a content load completes: there is no optimistic write.
C35_NoOptimisticWrite ==
  [][ /\ (\E i \in SaveIds : SaveIssued(i)) => content' = content
      /\ \A s \in CONTENT_SECTIONS :
           getSection(s)' # getSection(s) =>
             \/ \E i \in SaveIds : SaveSucceeds(i) /\ saveCalls[i].section = s
             \/ \E i \in LoadIds : LoadCompletes(i) ]_vars

\* a save of a value other than the one getSection returns is in flight
C35_Witness ==
  \E i \in SaveIds :
    /\ saveCalls[i].st = "pending"
    /\ saveCalls[i].newContent # getSection(saveCalls[i].section)
    /\ NoResponseApplied

\* C40: after a save of s has succeeded, the response of the initial load,
\* requested before any save could settle, does not change the value of s.
C40_LoadKeepsSavedSection ==
  [][ (LoadCompletes(1) /\ lastSave.id # 0 /\ lastSave.thrown = <<>>)
        => getSection(lastSave.section)' = getSection(lastSave.section) ]_vars

\* C36: the step that aborts the signal of the tutorials load and every
\* step of that load after it leave the tutorials list, the error and the
\* loading flag unchanged.
C36_NoUpdateAfterAbort ==
  [][ signal' = "aborted" => UNCHANGED <<tutorials, tutorialsError, tutorialsLoading>> ]_vars

\* the signal was aborted while an attempt was in flight and the response
\* of that attempt has been handled since
C36_Witness ==
  /\ signal = "aborted"
  /\ stage = "done"
  /\ attempt = 1
  /\ failures = <<>>
  /\ tutorialsLoading

\* malformed arguments: a slug that is no string or has nothing but blanks,
\* no section key, a topics list without a string that is not blank
MalformedSlug(x) == x.t # "string" \/ \A n \in DOMAIN x.s : x.s[n] = " "
MissingSection(x) == x.t \in {"undefined", "null"} \/ (x.t = "string" /\ x.s = <<>>)
NoTopic(topics) ==
  /\ topics.isArray
  /\ \A n \in DOMAIN topics.items :
       topics.items[n].t = "string" => \A m \in DOMAIN topics.items[n].s : topics.items[n].s[m] = " "

\* no request is sent and no store changes
NothingSentNorStored ==
  /\ UNCHANGED <<fetchCalls, saveCalls, editCalls, requests, nreq, slugLoads>>
  /\ UNCHANGED <<pageCache, pageCacheRef, pageCacheQueue, content, savingSections, tutorials>>

\* C37: the step of a pages.fetch, updateSection, addTutorial or
\* updateTutorial call with a malformed argument throws in that step, sends
\* no request, leaves no call in flight that could be tried again, and
\* leaves the page cache, the sections, savingSections and the tutorials
\* list unchanged.
C37_MalformedRejectedLocally ==
  [][ /\ \A a \in FetchInputs :
           (pagesFetch(a[1], a[2]) /\ MalformedSlug(a[1])) =>
             /\ settled'.status = <<NoStatus>> /\ settled'.net = 0 /\ settled'.refreshes = 0
             /\ NothingSentNorStored
      /\ \A x \in SectionArgs :
           (updateSection(x, NewValue) /\ MissingSection(x)) =>
             /\ lastSave'.id = 0 /\ lastSave'.thrown = <<NoStatus>>
             /\ NothingSentNorStored
      /\ \A topics \in TopicsArgs :
           (addTutorial(topics) /\ NoTopic(topics)) =>
             /\ lastEdit' = [op |-> "addTutorial", code |-> "validation", status |-> <<NoStatus>>]
             /\ NothingSentNorStored
      /\ \A id \in TutorialIds, topics \in TopicsArgs :
           (updateTutorial(id, topics) /\ NoTopic(topics)) =>
             /\ lastEdit' = [op |-> "updateTutorial", code |-> "validation", status |-> <<NoStatus>>]
             /\ NothingSentNorStored ]_vars

\* a pages.fetch with a malformed slug has just thrown, after an
\* updateSection without section and an updateTutorial without topic threw,
\* while the stores hold a page, a saved section and the loaded tutorials
C37_Witness ==
  /\ settled.via = "invalid"
  /\ MalformedSlug(lastSlug[2])
  /\ lastSave.id = 0 /\ lastSave.thrown = <<NoStatus>>
  /\ lastEdit.op = "updateTutorial" /\ lastEdit.code = "validation"
  /\ tutorials = ServerTutorials
  /\ \E k \in Slugs : pageCache[k] # Absent

\* C38 as stated: a call whose refresh of the Published Slug Set failed
\* rejects with status 404 and never calls the page-fetch endpoint.
C38_FailedRefreshRejects ==
  [][\A c \in AllCalls :
       (c.pc = "failed" /\ Left(c)) =>
          /\ settled' = Outcome(c.slug, FALSE, "gate404", Absent, <<404>>, 0, 1)
          /\ \A d \in AllCalls : ~Entered(d)]_vars

\* C38: the step in which the refresh of a call fails keeps the Published
\* Slug Set, queues the state update that records the error and does not
\* settle the call; only an uncached, non-forced call outside the set has
\* such a refresh; when the gate is checked again the call rejects with
\* status 404 without a page fetch if its slug is still outside the set,
\* and calls the page-fetch endpoint if another refresh has added the slug
\* in the meantime.
C38_FailedRefreshRechecks ==
  [][\A c \in AllCalls :
       /\ (c.pc = "refresh" /\ Left(c)) =>
             /\ settled' = NoFetch
             /\ \E pc \in {"wait", "failed"} : Entered([c EXCEPT !.pc = pc])
       /\ (c.pc = "failed" /\ Entered(c)) =>
             /\ Left([c EXCEPT !.pc = "refresh"])
             /\ ~c.force
             /\ dirty'
             /\ publishedPageSlugs' = publishedPageSlugs
             /\ publishedPageSlugsRef' = publishedPageSlugsRef
       /\ (c.pc = "failed" /\ Left(c)) =>
             IF c.slug \notin publishedPageSlugsRef
             THEN /\ settled' = Outcome(c.slug, FALSE, "gate404", Absent, <<404>>, 0, 1)
                  /\ \A d \in AllCalls : ~Entered(d)
             ELSE /\ settled' = NoFetch
                  /\ Entered([c EXCEPT !.pc = "net"])]_vars

\* the refresh of a call for a slug outside a Published Slug Set that is
\* not empty has failed, and the gate is about to be checked again
C38_Witness ==
  \E c \in InFlight :
    /\ c.pc = "failed"
    /\ ~dirty
    /\ publishedPageSlugsRef # {}
    /\ publishedPageSlugs = publishedPageSlugsRef
    /\ c.slug \notin publishedPageSlugsRef
    /\ pageCacheRef[c.slug] = Absent

=============================================================================
